---- MODULE Spec2Model ----
(***************************************************************************)
(* A model of the decoding engine of fits-rs: the TFORM grammar of binary  *)
(* tables, the keyword-record parser, the HDU dispatcher and the Image,    *)
(* ASCII-table and binary-table decoders with their cell accessors.        *)
(*                                                                         *)
(* Text is modelled as a sequence of one-character strings, a byte buffer  *)
(* as a sequence of numbers 0..255.  Every decoder is a pure function of   *)
(* its input; a run of the model picks an input, applies the decoder and   *)
(* then the accessors of what was decoded.  A Rust panic (a slice index    *)
(* out of range, a failed alignment check) is the outcome "panic",         *)
(* distinct from an error value returned through Result.                   *)
(***************************************************************************)
EXTENDS Integers, Sequences, FiniteSets, TLC

VARIABLES
    unit,       \* the component a run exercises: "tform", "keyword", "hdu",
                \* "fits"
    checked,    \* whether the build checks integer overflow (a debug
                \* build) or lets it wrap (a release build)
    pc,         \* the position of the run inside that component
    tfstr,      \* the TFORM string given to TForm::from_string
    tform,      \* the Result of TForm::from_string
    tfbytes,    \* the value of TForm::bytes on the parsed descriptor
    kwbytes,    \* the record given to Keyword::new
    kw,         \* the Result of Keyword::new
    hdubytes,   \* the buffer given to HDU::from_bytes
    origin,     \* how the header of the buffer was made
    hdu,        \* the Result of HDU::from_bytes
    atloc,      \* the indices of the last access: a location, <<row, col>>
    atbase,     \* the address of the pixel buffer modulo the pixel size
    pixel,      \* the outcome of Image::at
    atcell,     \* the Result of BinTable::at
    file,       \* the file FITS::from_file reads, as its chunks
    fitsOffset, \* offset, the cursor of the loop of FITS::from_file
    hdus,       \* fits.hdus, the HDUs the loop has pushed
    fits        \* the Result of FITS::from_file

vars == <<unit, checked, pc, tfstr, tform, tfbytes, kwbytes, kw,
          hdubytes, origin, hdu, atloc, atbase, pixel, atcell,
          file, fitsOffset, hdus, fits>>
tformVars == <<tfstr, tform, tfbytes>>
keywordVars == <<kwbytes, kw>>
hduVars == <<hdubytes, origin, hdu, atloc, atbase, pixel, atcell>>
fitsVars == <<file, fitsOffset, hdus, fits>>

(***************************************************************************)
(* Results.  st is "ok", "err" (an Err value, of kind err) or "panic".     *)
(***************************************************************************)
Ok(v) == [st |-> "ok", err |-> "", val |-> v]
Err(kind) == [st |-> "err", err |-> kind, val |-> <<>>]
\* an error value with the fields of its variant
ErrWith(kind, fields) == [st |-> "err", err |-> kind, val |-> fields]
Panic == [st |-> "panic", err |-> "", val |-> <<>>]
IsOk(r) == r.st = "ok"
IsErr(r, kind) == r.st = "err" /\ r.err = kind
NoResult == [st |-> "none", err |-> "", val |-> <<>>]

\* the `?` of Rust: the rest of the computation on the value of an Ok
\* result, the result itself when it is an error or a panic
Try(result, next(_)) == IF IsOk(result) THEN next(result.val) ELSE result

\* the `?` chain: the first result of rs that is not Ok, Ok(<<>>) if none
RECURSIVE FirstFailure(_)
FirstFailure(rs) ==
    IF rs = <<>> THEN Ok(<<>>)
    ELSE IF ~IsOk(Head(rs)) THEN Head(rs)
    ELSE FirstFailure(Tail(rs))

(***************************************************************************)
(* Characters and numbers in text.                                         *)
(***************************************************************************)
\* the characters of a string literal
Chars(str) == [i \in 1..Len(str) |-> SubSeq(str, i, i)]

Digits == <<"0", "1", "2", "3", "4", "5", "6", "7", "8", "9">>
IsDigit(c) == \E i \in 1..10 : Digits[i] = c
DigitVal(c) == (CHOOSE i \in 1..10 : Digits[i] = c) - 1

RECURSIVE TakeWhileDigit(_)
TakeWhileDigit(s) ==
    IF s = <<>> \/ ~IsDigit(Head(s)) THEN <<>>
    ELSE <<Head(s)>> \o TakeWhileDigit(Tail(s))

RECURSIVE TakeUntil(_, _)
TakeUntil(s, c) ==
    IF s = <<>> \/ Head(s) = c THEN <<>>
    ELSE <<Head(s)>> \o TakeUntil(Tail(s), c)

\* the value of a non-empty run of digits
RECURSIVE DigitsVal(_)
DigitsVal(s) ==
    IF s = <<>> THEN 0
    ELSE 10 * DigitsVal(SubSeq(s, 1, Len(s) - 1)) + DigitVal(s[Len(s)])

AllDigits(s) == \A i \in 1..Len(s) : IsDigit(s[i])

RECURSIVE StripZeros(_)
StripZeros(s) ==
    IF s # <<>> /\ Head(s) = "0" THEN StripZeros(Tail(s)) ELSE s

\* a < b for two digit runs of the same length
RECURSIVE DigitsLess(_, _)
DigitsLess(a, b) ==
    IF a = <<>> THEN FALSE
    ELSE IF Head(a) # Head(b) THEN DigitVal(Head(a)) < DigitVal(Head(b))
    ELSE DigitsLess(Tail(a), Tail(b))

\* usize::MAX = 2^64 - 1 and i64::MAX = 2^63 - 1, as digit runs
UsizeMaxDigits ==
    <<"1", "8", "4", "4", "6", "7", "4", "4", "0", "7",
      "3", "7", "0", "9", "5", "5", "1", "6", "1", "5">>
I64MaxDigits ==
    <<"9", "2", "2", "3", "3", "7", "2", "0", "3", "6",
      "8", "5", "4", "7", "7", "5", "8", "0", "7">>

\* the digit run d is a number above the one written max
DigitsOverflow(d, max) ==
    LET t == StripZeros(d)
    IN  Len(t) > Len(max) \/ (Len(t) = Len(max) /\ DigitsLess(max, t))

\* str::parse::<usize>: a non-empty run of digits, with an optional '+',
\* whose value fits 64 bits
ParseUsize(s) ==
    LET body == IF s # <<>> /\ Head(s) = "+" THEN Tail(s) ELSE s
    IN  IF body = <<>> \/ ~AllDigits(body) THEN Err("ParseIntError")
        ELSE IF DigitsOverflow(body, UsizeMaxDigits) THEN Err("ParseIntError")
        ELSE Ok(DigitsVal(body))

Skip(s, n) == IF n >= Len(s) THEN <<>> ELSE SubSeq(s, n + 1, Len(s))

(***************************************************************************)
(* bintable/tform.rs: the element types, the TFORM grammar and the size.   *)
(* A type is <<name>>, or <<"ArrayD32", inner, n>>, <<"ArrayD64", inner,   *)
(* n>> for the variable-array descriptors.                                 *)
(***************************************************************************)
TFormTypeDefault == <<"UnsignedByte">>
ArrayD32(inner, n) == <<"ArrayD32", inner, n>>
ArrayD64(inner, n) == <<"ArrayD64", inner, n>>

TFormChars ==
    <<"L", "X", "B", "I", "J", "K", "A", "E", "D", "C", "M", "P", "Q">>

tform_type_from_char(c) ==
    CASE c = "L" -> Ok(<<"Logical">>)
      [] c = "X" -> Ok(<<"Bit">>)
      [] c = "B" -> Ok(<<"UnsignedByte">>)
      [] c = "I" -> Ok(<<"Int16">>)
      [] c = "J" -> Ok(<<"Int32">>)
      [] c = "K" -> Ok(<<"Int64">>)
      [] c = "A" -> Ok(<<"Char">>)
      [] c = "E" -> Ok(<<"Float32">>)
      [] c = "D" -> Ok(<<"Float64">>)
      [] c = "C" -> Ok(<<"Complex32">>)
      [] c = "M" -> Ok(<<"Complex64">>)
      [] c = "P" -> Ok(ArrayD32(TFormTypeDefault, 0))
      [] c = "Q" -> Ok(ArrayD64(TFormTypeDefault, 0))
      [] OTHER -> Err("InvalidTForm")

TForm(dtype, repeats) == [dtype |-> dtype, repeats |-> repeats]

\* the P / Q branch of from_string, after the type character was decoded
TFormArray(s, numstr, repeats, dtype) ==
    LET ttype == tform_type_from_char(s[Len(numstr) + 1])
        arrstr == Skip(s, Len(numstr) + 1)
        n == IF arrstr # <<>> /\ Head(arrstr) = "("
             THEN ParseUsize(TakeUntil(Tail(arrstr), ")"))
             ELSE Ok(0)
    IN  IF ~IsOk(ttype) THEN ttype
        ELSE IF ~IsOk(n) THEN n
        ELSE IF dtype = ArrayD32(TFormTypeDefault, 0)
             THEN Ok(TForm(ArrayD32(ttype.val, n.val), repeats))
             ELSE Ok(TForm(ArrayD64(ttype.val, n.val), repeats))

TFormFromString(s) ==
    IF s = <<>> THEN Err("InvalidTForm")
    ELSE
        LET numstr == TakeWhileDigit(s)
            repeats == IF numstr # <<>> THEN ParseUsize(numstr) ELSE Ok(1)
        IN  IF ~IsOk(repeats) THEN repeats
            ELSE IF Len(numstr) >= Len(s) THEN Err("InvalidTForm")
            ELSE
                LET dtype == tform_type_from_char(s[Len(numstr) + 1])
                IN  IF ~IsOk(dtype) THEN dtype
                    ELSE IF dtype.val = ArrayD32(TFormTypeDefault, 0)
                            \/ dtype.val = ArrayD64(TFormTypeDefault, 0)
                         THEN TFormArray(s, numstr, repeats.val, dtype.val)
                         ELSE Ok(TForm(dtype.val, repeats.val))

RECURSIVE TFormBytes(_)
TFormBytes(tf) ==
    IF tf.dtype = <<"Bit">>
    THEN IF tf.repeats % 8 = 0 THEN tf.repeats \div 8
         ELSE tf.repeats \div 8 + 1
    ELSE
        LET k == tf.dtype[1]
            unitsize ==
                CASE k = "Logical" -> 1
                  [] k = "UnsignedByte" -> 1
                  [] k = "Int16" -> 2
                  [] k = "Int32" -> 4
                  [] k = "Int64" -> 8
                  [] k = "Char" -> 1
                  [] k = "Float32" -> 4
                  [] k = "Float64" -> 8
                  [] k = "Complex32" -> 8
                  [] k = "Complex64" -> 16
                  [] k = "ArrayD32" ->
                        tf.dtype[3] * TFormBytes(TForm(tf.dtype[2], 1))
                  [] k = "ArrayD64" ->
                        tf.dtype[3] * TFormBytes(TForm(tf.dtype[2], 1))
        IN  unitsize * tf.repeats

(***************************************************************************)
(* Text helpers shared by the keyword parser and the table decoders.       *)
(***************************************************************************)
UpperChars ==
    {"A", "B", "C", "D", "E", "F", "G", "H", "I", "J", "K", "L", "M",
     "N", "O", "P", "Q", "R", "S", "T", "U", "V", "W", "X", "Y", "Z"}

RECURSIVE TrimStart(_)
TrimStart(s) == IF s # <<>> /\ Head(s) = " " THEN TrimStart(Tail(s)) ELSE s

RECURSIVE TrimEnd(_)
TrimEnd(s) ==
    IF s # <<>> /\ s[Len(s)] = " " THEN TrimEnd(SubSeq(s, 1, Len(s) - 1))
    ELSE s

Trim(s) == TrimEnd(TrimStart(s))

\* str::find(c): the 0-based position of the first c, -1 for None
RECURSIVE FindFrom(_, _, _)
FindFrom(s, c, i) ==
    IF i > Len(s) THEN -1
    ELSE IF s[i] = c THEN i - 1
    ELSE FindFrom(s, c, i + 1)
Find(s, c) == FindFrom(s, c, 1)

Contains(s, c) == \E i \in 1..Len(s) : s[i] = c

\* the slice s[a..b] of Rust (0-based, b exclusive)
Slice(s, a, b) == SubSeq(s, a + 1, b)

\* str.split(c): the pieces between the occurrences of c
RECURSIVE Split(_, _)
Split(s, c) ==
    LET pos == Find(s, c)
    IN  IF pos < 0 THEN <<s>>
        ELSE <<Slice(s, 0, pos)>> \o Split(Skip(s, pos + 1), c)
SplitComma(s) == Split(s, ",")

\* the characters of a name as one string
RECURSIVE Join(_)
Join(s) == IF s = <<>> THEN "" ELSE Head(s) \o Join(Tail(s))

RECURSIVE Pow10(_)
Pow10(n) == IF n <= 0 THEN 1 ELSE 10 * Pow10(n - 1)

\* str::parse::<i64>: an optional sign and a non-empty run of digits whose
\* value fits 64 bits
ParseI64(s) ==
    LET signed == s # <<>> /\ Head(s) \in {"+", "-"}
        body == IF signed THEN Tail(s) ELSE s
        neg == signed /\ Head(s) = "-"
    IN  IF body = <<>> \/ ~AllDigits(body) THEN Err("ParseIntError")
        ELSE IF DigitsOverflow(body, I64MaxDigits) THEN Err("ParseIntError")
        ELSE Ok(IF neg THEN 0 - DigitsVal(body) ELSE DigitsVal(body))

(***************************************************************************)
(* An f64 is modelled by the decimal number m * 10^e it was written as,    *)
(* <<m, e>> with m not a multiple of 10 (<<0, 0>> for zero): the decimal   *)
(* texts of a FITS file and their sums and products are exact in it.       *)
(***************************************************************************)
RECURSIVE Dec(_, _)
Dec(m, e) ==
    IF m = 0 THEN <<0, 0>>
    ELSE IF m % 10 = 0 THEN Dec(m \div 10, e + 1)
    ELSE <<m, e>>

DecOfInt(i) == Dec(i, 0)
DecMul(a, b) == Dec(a[1] * b[1], a[2] + b[2])
DecAdd(a, b) ==
    LET e == IF a[2] < b[2] THEN a[2] ELSE b[2]
    IN  Dec(a[1] * Pow10(a[2] - e) + b[1] * Pow10(b[2] - e), e)

\* the cast `as i64` of an f64: the fraction is dropped (toward zero)
DecAsI64(a) ==
    IF a[2] >= 0 THEN a[1] * Pow10(a[2])
    ELSE IF a[1] >= 0 THEN a[1] \div Pow10(0 - a[2])
    ELSE 0 - ((0 - a[1]) \div Pow10(0 - a[2]))

\* str::parse::<f64> on decimal text: [sign] digits [. digits] [E [sign]
\* digits] with at least one digit in the mantissa
ParseF64(s) ==
    LET signed == s # <<>> /\ Head(s) \in {"+", "-"}
        neg == signed /\ Head(s) = "-"
        body == IF signed THEN Tail(s) ELSE s
        int == TakeWhileDigit(body)
        r1 == Skip(body, Len(int))
        dot == r1 # <<>> /\ Head(r1) = "."
        frac == IF dot THEN TakeWhileDigit(Tail(r1)) ELSE <<>>
        r2 == IF dot THEN Skip(r1, 1 + Len(frac)) ELSE r1
        hasexp == r2 # <<>> /\ Head(r2) \in {"E", "e"}
        exp == IF hasexp THEN ParseI64(Tail(r2)) ELSE Ok(0)
        mant == DigitsVal(int \o frac)
    IN  IF int = <<>> /\ frac = <<>> THEN Err("ParseFloatError")
        ELSE IF r2 # <<>> /\ ~hasexp THEN Err("ParseFloatError")
        ELSE IF ~IsOk(exp) THEN Err("ParseFloatError")
        ELSE Ok(Dec(IF neg THEN 0 - mant ELSE mant, exp.val - Len(frac)))

(***************************************************************************)
(* header/keyword.rs: KeywordValue, Keyword and Keyword::new.              *)
(* A value is <<"None">>, <<"Bool", b>>, <<"String", text>>, <<"Int", i>>, *)
(* <<"Float", f>>, <<"ComplexInt", re, im>> or <<"ComplexFloat", re, im>>; *)
(* a comment is <<>> for None and <<text>> for Some(text).                 *)
(***************************************************************************)
KNone == <<"None">>
KBool(b) == <<"Bool", b>>
KString(s) == <<"String", s>>
KInt(i) == <<"Int", i>>
KFloat(f) == <<"Float", f>>
KComplexInt(re, im) == <<"ComplexInt", re, im>>
KComplexFloat(re, im) == <<"ComplexFloat", re, im>>

Keyword(name, value, comment) ==
    [name |-> name, value |-> value, comment |-> comment]
KeywordDefault == Keyword("", KNone, <<>>)

RecordLen == 80

NameCharOk(c) == c \in UpperChars \/ c = " " \/ IsDigit(c) \/ c \in {"_", "-"}

\* the comment looked for in remainder: the text after its first '/',
\* unless the '/' is its last character
CommentOf(remainder) ==
    LET pos == Find(remainder, "/")
    IN  IF pos >= 0 /\ pos < Len(remainder) - 1
        THEN <<Trim(Skip(remainder, pos + 1))>>
        ELSE <<>>

\* the position of the closing quote of a string that opens at kvchars[0]
RECURSIVE QuoteEnd(_, _)
QuoteEnd(kvchars, end) ==
    IF end >= Len(kvchars) THEN end
    ELSE IF kvchars[end + 1] = "'"
         THEN IF end + 1 < Len(kvchars) /\ kvchars[end + 2] = "'"
              THEN QuoteEnd(kvchars, end + 2)
              ELSE end
         ELSE QuoteEnd(kvchars, end + 1)

\* the string with the comment looked for from the opening quote
KeywordString_AnySlash(name, kvchars) ==
    LET end == QuoteEnd(kvchars, 1)
    IN  Ok(Keyword(name, KString(Trim(Slice(kvchars, 1, end))),
                   CommentOf(kvchars)))

KeywordString(name, kvchars) ==
    LET end == QuoteEnd(kvchars, 1)
    IN  Ok(Keyword(name, KString(Trim(Slice(kvchars, 1, end))),
                   CommentOf(Skip(kvchars, end))))

KeywordBool(name, kwstr, kvchars) ==
    Ok(Keyword(name, KBool(kwstr[30] = "T"), CommentOf(Skip(kvchars, 20))))

AllIn(s, S) == \A i \in 1..Len(s) : IsDigit(s[i]) \/ s[i] \in S

\* the (real, imag) pair of complexstr, each part parsed by parse
KeywordComplex(name, kvchars, complexstr, parse(_), make(_, _)) ==
    LET start == Find(complexstr, "(")
        end == Find(complexstr, ")")
    IN  IF start < 0 \/ end < 0 \/ end < start
        THEN Err("InvalidKeywordRecord")
        ELSE
            LET parts == SplitComma(Slice(complexstr, start + 1, end))
            IN  IF Len(parts) # 2 THEN Err("InvalidKeywordRecord")
                ELSE
                    LET real == parse(Trim(parts[1]))
                        imag == parse(Trim(parts[2]))
                    IN  IF ~IsOk(real) THEN real
                        ELSE IF ~IsOk(imag) THEN imag
                        ELSE Ok(Keyword(name, make(real.val, imag.val),
                                        CommentOf(Skip(kvchars, 20))))

KeywordNumber(name, kvchars) ==
    LET realstr == TrimStart(Slice(kvchars, 0, 20))
        cs == TrimStart(Skip(kvchars, 20))
        complexstr == IF Find(cs, "/") >= 0 THEN Slice(cs, 0, Find(cs, "/"))
                      ELSE cs
        is_int == AllIn(realstr, {"+", "-"})
        is_float == AllIn(realstr, {".", "+", "-", "E", "D"})
        is_complex_float ==
            AllIn(complexstr, {".", "+", "-", "E", "D", " ", ",", "(", ")"})
        is_complex_int == AllIn(complexstr, {"+", "-", " ", ",", "(", ")"})
        remainder == Skip(kvchars, 20)
    IN  IF is_int
        THEN LET v == ParseI64(realstr)
             IN  IF IsOk(v)
                 THEN Ok(Keyword(name, KInt(v.val), CommentOf(remainder)))
                 ELSE v
        ELSE IF is_float
        THEN LET v == ParseF64(realstr)
             IN  IF IsOk(v)
                 THEN Ok(Keyword(name, KFloat(v.val), CommentOf(remainder)))
                 ELSE v
        ELSE IF is_complex_int
        THEN KeywordComplex(name, kvchars, complexstr, ParseI64, KComplexInt)
        ELSE IF is_complex_float
        THEN KeywordComplex(name, kvchars, complexstr, ParseF64,
                            KComplexFloat)
        ELSE Err("InvalidKeywordRecord")

\* the value with the boolean column looked at before the opening quote
KeywordValueOf_BoolFirst(name, kwstr, kvchars) ==
    IF kwstr[30] = "T" \/ kwstr[30] = "F"
    THEN KeywordBool(name, kwstr, kvchars)
    ELSE IF Head(kvchars) = "'" THEN KeywordString(name, kvchars)
    ELSE KeywordNumber(name, kvchars)

\* the value of a record that has one: string, then boolean, then number
KeywordValueOf(name, kwstr, kvchars) ==
    IF Head(kvchars) = "'" THEN KeywordString(name, kvchars)
    ELSE IF kwstr[30] = "T" \/ kwstr[30] = "F"
    THEN KeywordBool(name, kwstr, kvchars)
    ELSE KeywordNumber(name, kvchars)

\* String::from_utf8 of bytes written as text: a byte from 128 up, which
\* is written ^n, makes it fail
HighChars == {"^" \o ToString(b) : b \in 128..255}
TextFromUtf8(text) ==
    IF \E i \in 1..Len(text) : text[i] \in HighChars
    THEN Err("FromUtf8Error")
    ELSE Ok(text)

KeywordNew(kwstr) ==
    IF Len(kwstr) # RecordLen THEN Err("BadKeywordLength")
    ELSE IF \E i \in 1..8 : ~NameCharOk(kwstr[i])
    THEN Try(TextFromUtf8(Slice(kwstr, 0, 8)), LAMBDA name :
             Err("InvalidCharacterInKeyword"))
    ELSE
        LET kwname == Trim(Slice(kwstr, 0, 8))
        IN  IF Contains(kwname, " ") THEN Err("InvalidCharacterInKeyword")
            ELSE IF kwstr[9] = "=" /\ kwstr[10] = " "
            THEN Try(TextFromUtf8(Skip(kwstr, 10)), LAMBDA kvchars :
                     KeywordValueOf(Join(kwname), kwstr, kvchars))
            ELSE Ok(Keyword(Join(kwname), KNone, <<>>))

(***************************************************************************)
(* header/mod.rs: a Header is the sequence of its keywords; an Option is   *)
(* <<>> for None and <<x>> for Some(x).  Positions are those of Rust (the  *)
(* first keyword is at index 0).                                           *)
(***************************************************************************)
KW(name, value) == Keyword(name, value, <<>>)

HasIndex(header, index) == index < Len(header)
At(header, index) == header[index + 1]

RECURSIVE HeaderFindFrom(_, _, _)
HeaderFindFrom(header, key, i) ==
    IF i > Len(header) THEN <<>>
    ELSE IF header[i].name = key THEN <<header[i]>>
    ELSE HeaderFindFrom(header, key, i + 1)
HeaderFind(header, key) == HeaderFindFrom(header, key, 1)

HeaderValue(header, key) ==
    LET keyword == HeaderFind(header, key)
    IN  IF keyword = <<>> THEN <<>> ELSE <<keyword[1].value>>

\* value_string, value_int, value_float: None when absent or of another type
HeaderValueOfType(header, key, type) ==
    LET v == HeaderValue(header, key)
    IN  IF v # <<>> /\ v[1][1] = type THEN <<v[1][2]>> ELSE <<>>
value_string(header, key) == HeaderValueOfType(header, key, "String")
value_int(header, key) == HeaderValueOfType(header, key, "Int")
value_float(header, key) == HeaderValueOfType(header, key, "Float")

\* format!("{}{}", prefix, i)
Name(prefix, i) == prefix \o ToString(i)

(***************************************************************************)
(* utils/mod.rs                                                            *)
(***************************************************************************)
\* the integer of the keyword at index, whatever its name
get_keyword_int_at_index_AnyName(header, index, name) ==
    IF HasIndex(header, index)
    THEN LET keyword == At(header, index)
         IN  IF keyword.value[1] = "Int" THEN Ok(keyword.value[2])
             ELSE Err("UnexpectedValueType")
    ELSE Err("MissingKeyword")
get_keyword_int_at_index(header, index, name) ==
    IF HasIndex(header, index)
    THEN LET keyword == At(header, index)
         IN  IF keyword.name # name THEN Err("InvalidKeywordPlacement")
             ELSE IF keyword.value[1] = "Int" THEN Ok(keyword.value[2])
             ELSE Err("UnexpectedValueType")
    ELSE Err("MissingKeyword")

check_int_keyword_at_index(header, index, name, value) ==
    IF HasIndex(header, index)
    THEN LET keyword == At(header, index)
         IN  IF keyword.name # name THEN Err("InvalidKeywordPlacement")
             ELSE IF keyword.value[1] = "Int"
                  THEN IF keyword.value[2] # value THEN Err("GenericError")
                       ELSE Ok(<<>>)
                  ELSE Err("UnexpectedValueType")
    ELSE Err("MissingKeyword")

(***************************************************************************)
(* Integer casts and usize arithmetic.  `as u16` keeps the low 16 bits.  A *)
(* usize is written as the integer nearest to 0 that is congruent to it    *)
(* modulo 2^64: `as usize` keeps the bits of an i64, so that a negative v  *)
(* stands for 2^64 + v.  The values of the model are small, so a product   *)
(* of two of them overflows exactly when one stands for a number near 2^64 *)
(* and the other is not 0 or 1.                                            *)
(***************************************************************************)
AsUsize(v) == v
AsU16(v) == v % 65536

UsizeOverflows(a, b) ==
    \/ a < 0 /\ b < 0
    \/ a < 0 /\ b > 1
    \/ b < 0 /\ a > 1

\* a * b on usize: a panic where the build checks overflow, the product
\* modulo 2^64 where it does not
UsizeMul(a, b) ==
    IF UsizeOverflows(a, b) /\ checked THEN Panic ELSE Ok(a * b)

\* Iterator::product on usize: acc times the elements of s in their order
RECURSIVE UsizeProduct(_, _)
UsizeProduct(s, acc) ==
    IF s = <<>> THEN Ok(acc)
    ELSE Try(UsizeMul(acc, Head(s)), LAMBDA p : UsizeProduct(Tail(s), p))

(***************************************************************************)
(* types.rs: Bitpix                                                        *)
(***************************************************************************)
BitpixFromI64(value) ==
    CASE value = 8 -> Ok("Int8")
      [] value = 16 -> Ok("Int16")
      [] value = 32 -> Ok("Int32")
      [] value = 64 -> Ok("Int64")
      [] value = -32 -> Ok("Float32")
      [] value = -64 -> Ok("Float64")
      [] OTHER -> Err("io::InvalidData")

BitpixSize(bitpix) ==
    CASE bitpix = "Int8" -> 1
      [] bitpix = "Int16" -> 2
      [] bitpix = "Int32" -> 4
      [] bitpix = "Int64" -> 8
      [] bitpix = "Float32" -> 4
      [] bitpix = "Float64" -> 8

(***************************************************************************)
(* wcs/mod.rs: WCS::from_header.  The vectors are collected for as long    *)
(* as the numbered keyword exists with the expected type; cd and pc are    *)
(* the entries given for the CDi_j / PCi_j keywords, <<>> when none is.    *)
(***************************************************************************)
RECURSIVE WCSCollect(_, _, _, _)
WCSCollect(header, prefix, type, niaxes) ==
    LET v == HeaderValueOfType(header, Name(prefix, niaxes + 1), type)
    IN  IF v = <<>> THEN <<>>
        ELSE v \o WCSCollect(header, prefix, type, niaxes + 1)

WCSMatrix(header, prefix, n) ==
    LET given == {ij \in (1..n) \X (1..n) :
                    value_float(header,
                        Name(prefix, ij[1]) \o "_" \o ToString(ij[2])) # <<>>}
    IN  IF given = {} THEN <<>>
        ELSE <<[ij \in (1..n) \X (1..n) |->
                  IF ij \in given
                  THEN value_float(header,
                        Name(prefix, ij[1]) \o "_" \o ToString(ij[2]))[1]
                  ELSE IF ij[1] = ij[2] THEN DecOfInt(1) ELSE DecOfInt(0)]>>

WCSOf(wcsaxes, cunit, ctype, cdelt, crval, crpix, cdmat, pcmat) ==
    IF wcsaxes # <<>> /\ wcsaxes[1][1] # "Int"
    THEN Err("UnexpectedValueType")
    ELSE IF cdmat = <<>> /\ pcmat = <<>> /\ cdelt = <<>> /\ crpix = <<>>
            /\ crval = <<>> /\ ctype = <<>> /\ cunit = <<>>
    THEN Ok(<<>>)
    ELSE Ok(<<[wcaxes |-> IF wcsaxes = <<>> THEN <<>>
                          ELSE <<AsUsize(wcsaxes[1][2])>>,
               ctype |-> ctype, crval |-> crval, crpix |-> crpix,
               cdelt |-> cdelt, cunit |-> cunit, cd |-> cdmat, pc |-> pcmat]>>)

WCSFromHeader(header) ==
    WCSOf(HeaderValue(header, "WCSAXES"),
          WCSCollect(header, "CUNIT", "String", 0),
          WCSCollect(header, "CTYPE", "String", 0),
          WCSCollect(header, "CDELT", "Float", 0),
          WCSCollect(header, "CRVAL", "Float", 0),
          WCSCollect(header, "CRPIX", "Float", 0),
          WCSMatrix(header, "CD", Len(WCSCollect(header, "CRPIX", "Float", 0))),
          WCSMatrix(header, "PC", Len(WCSCollect(header, "CRPIX", "Float", 0))))

(***************************************************************************)
(* types.rs: HDUData                                                       *)
(***************************************************************************)
HDUDataNone == <<"None">>
HDUDataImage(image) == <<"Image", image>>
HDUDataTable(table) == <<"Table", table>>
HDUDataBinTable(bintable) == <<"BinTable", bintable>>

(***************************************************************************)
(* image/mod.rs: Image::from_bytes and Image::at.  The host is taken to    *)
(* be little-endian: the native layout of an element is its big-endian     *)
(* bytes reversed.  A decoder returns Ok(<<data, nbytes>>).                *)
(***************************************************************************)
RECURSIVE Reverse(_)
Reverse(s) == IF s = <<>> THEN <<>> ELSE Reverse(Tail(s)) \o <<Head(s)>>

RECURSIVE Product(_)
Product(s) == IF s = <<>> THEN 1 ELSE Head(s) * Product(Tail(s))

\* the keyword at index, which must exist and bear the name, as an integer
ImageIntAt(header, index, name) ==
    IF ~HasIndex(header, index) THEN Err("GenericError")
    ELSE IF At(header, index).name # name
    THEN Err("InvalidKeywordPlacement")
    ELSE IF At(header, index).value[1] # "Int" THEN Err("GenericError")
    ELSE Ok(At(header, index).value[2])

\* NAXIS1 .. NAXISn at the indices 3 .. 3+n-1, from axis i (0-based) on
RECURSIVE ImageAxes(_, _, _)
ImageAxes(header, naxis, i) ==
    IF i >= naxis THEN Ok(<<>>)
    ELSE Try(ImageIntAt(header, 3 + i, Name("NAXIS", i + 1)), LAMBDA axis :
         Try(ImageAxes(header, naxis, i + 1), LAMBDA rest :
         Ok(<<AsUsize(axis)>> \o rest)))

\* PCOUNT and GCOUNT of an IMAGE extension, 0 and 1 otherwise
ImageCounts(header, naxis) ==
    IF KString(Chars("IMAGE")) = At(header, 0).value
    THEN Try(ImageIntAt(header, 4 + naxis, "PCOUNT"), LAMBDA pcount :
         Try(ImageIntAt(header, 4 + naxis + 1, "GCOUNT"), LAMBDA gcount :
         Ok(<<AsUsize(pcount), AsUsize(gcount)>>)))
    ELSE Ok(<<0, 1>>)

\* the payload in native layout: every element of size bytes reversed
RECURSIVE ToNative(_, _)
ToNative(bytes, size) ==
    IF bytes = <<>> THEN <<>>
    ELSE Reverse(SubSeq(bytes, 1, size)) \o ToNative(Skip(bytes, size), size)

\* the image of nbytes bytes, None when there is none
ImageData(header, rawbytes, bitpix, axes, counts, nbytes) ==
    IF nbytes # 0
    THEN IF nbytes < 0 \/ nbytes > Len(rawbytes) THEN Panic
         ELSE Try(WCSFromHeader(header), LAMBDA wcs :
              Ok(<<HDUDataImage(
                     [pixeltype |-> bitpix,
                      axes |-> axes,
                      rawbytes |-> IF bitpix = "Int8"
                                   THEN SubSeq(rawbytes, 1, nbytes)
                                   ELSE ToNative(SubSeq(rawbytes, 1, nbytes),
                                                 BitpixSize(bitpix)),
                      wcs |-> wcs,
                      gcount |-> counts[2],
                      pcount |-> counts[1]]),
                   nbytes>>))
    ELSE Ok(<<HDUDataNone, nbytes>>)

ImagePixels(header, rawbytes, bitpix, axes, counts) ==
    Try(UsizeProduct(axes, 1), LAMBDA npixels :
    Try(UsizeMul(npixels, BitpixSize(bitpix)), LAMBDA nbytes :
    ImageData(header, rawbytes, bitpix, axes, counts, nbytes)))

ImageFromBytes(header, rawbytes) ==
    Try(ImageIntAt(header, 1, "BITPIX"), LAMBDA kwbitpix :
    Try(BitpixFromI64(kwbitpix), LAMBDA bitpix :
    Try(ImageIntAt(header, 2, "NAXIS"), LAMBDA kwaxes :
    Try(ImageAxes(header, AsU16(kwaxes), 0), LAMBDA axes :
    Try(ImageCounts(header, AsU16(kwaxes)), LAMBDA counts :
    ImagePixels(header, rawbytes, bitpix, axes, counts))))))

\* the byte offset Image::at computes for loc, -1 when it indexes axes
\* past their end
RECURSIVE ImageOffset(_, _, _, _, _)
ImageOffset(axes, loc, ix, offmult, offset) ==
    IF ix > Len(loc) THEN offset
    ELSE IF ix > Len(axes) THEN -1
    ELSE ImageOffset(axes, loc, ix + 1, offmult * axes[ix],
                     offset + offmult * loc[ix])

\* Image::at::<T>(loc), T the type of the pixels; base is the address of
\* rawbytes[0] modulo the alignment of T.  The pixel is given by its bytes,
\* most significant first.
ImageAt(image, loc, base) ==
    LET bitsize == BitpixSize(image.pixeltype)
        offset == ImageOffset(image.axes, loc, 1, 1, 0)
    IN  IF offset < 0 THEN Panic
        ELSE IF offset + bitsize > Len(image.rawbytes) THEN Panic
        ELSE IF (base + offset) % bitsize # 0 THEN Panic
        ELSE Ok(Reverse(SubSeq(image.rawbytes, offset + 1, offset + bitsize)))

(***************************************************************************)
(* Bytes as text.  The character of a byte is taken from the ASCII table;  *)
(* a control byte and the grave accent are written ^n.  String::from_utf8  *)
(* is modelled on ASCII buffers: a byte from 128 up makes it fail.         *)
(***************************************************************************)
AsciiChars ==
    Chars(" !\"#$%&'()*+,-./0123456789:;<=>?@ABCDEFGHIJKLMNOPQRSTUVWXYZ")
    \o Chars("[\\]^_") \o <<"^96">> \o Chars("abcdefghijklmnopqrstuvwxyz{|}~")
AsciiFirst == 32
AsciiLimit == 128

CharOf(b) ==
    IF b >= AsciiFirst /\ b - AsciiFirst < Len(AsciiChars)
    THEN AsciiChars[b - AsciiFirst + 1]
    ELSE "^" \o ToString(b)
ByteOf(c) ==
    AsciiFirst - 1 + CHOOSE i \in 1..Len(AsciiChars) : AsciiChars[i] = c
AsBytes(text) == [i \in 1..Len(text) |-> ByteOf(text[i])]

FromUtf8(bytes) ==
    IF \E i \in 1..Len(bytes) : bytes[i] >= AsciiLimit
    THEN Err("FromUtf8Error")
    ELSE Ok([i \in 1..Len(bytes) |-> CharOf(bytes[i])])

(***************************************************************************)
(* tdisp/mod.rs: TDisp::from_keyword                                       *)
(***************************************************************************)
TDispNone == <<"None">>

\* w[.m]; the number after the '.' is parsed first
wmfromstr(s) ==
    Try(IF Len(Split(s, ".")) > 1 THEN ParseUsize(Split(s, ".")[2]) ELSE Ok(0),
        LAMBDA m :
    Try(ParseUsize(Split(s, ".")[1]), LAMBDA w : Ok(<<w, m>>)))

\* the d[Ee] after the '.' of w.d[Ee]: <<d, e>>
wdefromstr_de(parts) ==
    IF Len(parts) > 1
    THEN Try(ParseUsize(Split(parts[2], "E")[1]), LAMBDA d :
         IF Len(Split(parts[2], "E")) > 1
         THEN Try(ParseUsize(Split(parts[2], "E")[2]), LAMBDA e : Ok(<<d, e>>))
         ELSE Ok(<<d, 0>>))
    ELSE Ok(<<0, 0>>)

wdefromstr(s) ==
    Try(ParseUsize(Split(s, ".")[1]), LAMBDA w :
    Try(wdefromstr_de(Split(s, ".")), LAMBDA de : Ok(<<w>> \o de)))

\* a variant of TDisp built from the numbers parsed for it
TDispOf(variant, fields) == Try(fields, LAMBDA f : Ok(<<variant>> \o f))

TDispWidth(variant, w) ==
    IF IsOk(w) THEN Ok(<<variant, w.val>>) ELSE Err("GenericError")

\* the format of code disp with the text fstr after the code
TDispFormat(disp, fstr) ==
    CASE disp = "A" -> TDispWidth("Char", ParseUsize(fstr))
      [] disp = "L" -> TDispWidth("Logical", ParseUsize(fstr))
      [] disp = "I" -> TDispOf("Int", wmfromstr(fstr))
      [] disp = "B" -> TDispOf("Bin", wmfromstr(fstr))
      [] disp = "O" -> TDispOf("Oct", wmfromstr(fstr))
      [] disp = "Z" -> TDispOf("Hex", wmfromstr(fstr))
      [] disp = "F" -> TDispOf("Float", wmfromstr(fstr))
      [] disp = "G" -> TDispOf("FloatGen", wdefromstr(fstr))
      [] disp = "D" -> TDispOf("FloatExp", wdefromstr(fstr))
      [] disp = "E" ->
            IF fstr # <<>> /\ Head(fstr) \in {"N", "S"}
            THEN Try(wmfromstr(Tail(fstr)), LAMBDA wd :
                     Ok(<<"FloatExp">> \o wd \o <<3>>))
            ELSE TDispOf("FloatExp", wdefromstr(fstr))
      [] OTHER -> Err("GenericError")

TDispFromKeyword(keyword) ==
    IF keyword.value[1] # "String" \/ keyword.value[2] = <<>>
    THEN Err("GenericError")
    ELSE TDispFormat(Head(keyword.value[2]), Tail(keyword.value[2]))

(***************************************************************************)
(* types.rs: TValue, the cell of an ASCII table                            *)
(***************************************************************************)
TValueNull == <<"Null">>
TValueString(s) == <<"String", s>>
TValueInt(i) == <<"Int", i>>
TValueFloat(f) == <<"Float", f>>

(***************************************************************************)
(* table/mod.rs: Table::from_bytes.  A column format is <<kind, width>>    *)
(* or <<kind, width, decimals>>.                                           *)
(***************************************************************************)
\* the width.decimals part of the F, E and D formats; unwrap() panics when
\* there is no '.'
TableFloatForm(kind, rest) ==
    Try(ParseUsize(Split(rest, ".")[1]), LAMBDA width :
    IF Len(Split(rest, ".")) < 2 THEN Panic
    ELSE Try(ParseUsize(Split(rest, ".")[2]), LAMBDA dec :
         Ok(<<kind, width, dec>>)))

\* the format of code id with the text rest after the code
TableForm(id, rest) ==
    CASE id = "A" -> Try(ParseUsize(rest), LAMBDA width : Ok(<<"Char", width>>))
      [] id = "I" -> Try(ParseUsize(rest), LAMBDA width : Ok(<<"Int", width>>))
      [] id = "F" -> TableFloatForm("FloatDec", rest)
      [] id = "E" -> TableFloatForm("FloatE", rest)
      [] id = "D" -> TableFloatForm("FloatD", rest)
      [] OTHER -> Err("GenericError")

tform_from_keyword(keyword) ==
    IF keyword.value[1] # "String" THEN Err("GenericError")
    ELSE IF Len(keyword.value[2]) < 2 THEN Err("GenericError")
    ELSE TableForm(Head(keyword.value[2]), Tail(keyword.value[2]))

\* the value of the keyword at index, which must exist and bear the name
TableAt(header, index, name, missing) ==
    IF ~HasIndex(header, index) THEN Err(missing)
    ELSE IF At(header, index).name # name
    THEN Err("InvalidKeywordPlacement")
    ELSE Ok(At(header, index).value)

\* ... as an integer, which must be the one expected when one is (<<e>>)
TableIntAt(header, index, name, missing, expected, invalid) ==
    Try(TableAt(header, index, name, missing), LAMBDA value :
        IF value[1] # "Int" THEN Err(invalid)
        ELSE IF expected # <<>> /\ value[2] # expected[1] THEN Err(invalid)
        ELSE Ok(value[2]))

\* the value of a keyword found by name, of the type: Ok(v)
TableTyped(found, type) ==
    IF found = <<>> THEN Err("GenericError")
    ELSE IF found[1].value[1] # type THEN Err("GenericError")
    ELSE Ok(found[1].value[2])

\* a keyword found by name that must have the type: Ok(v)
TableRequired(header, key, type) == TableTyped(HeaderFind(header, key), type)

\* a keyword that may be absent, and must have the type if present: Ok(option)
TableOptional(header, key, type) ==
    IF HeaderFind(header, key) = <<>> THEN Ok(<<>>)
    ELSE Try(TableTyped(HeaderFind(header, key), type), LAMBDA v : Ok(<<v>>))

\* TFORMi, required, and TDISPi, parsed when there is one
TableColumnForm(found) ==
    IF found = <<>> THEN Err("GenericError") ELSE tform_from_keyword(found[1])
TableColumnDisp(found) ==
    IF found = <<>> THEN Ok(TDispNone) ELSE TDispFromKeyword(found[1])

\* the keywords of column i (0-based), read in the order of the code
TableColumn(header, i) ==
    Try(TableRequired(header, Name("TBCOL", i + 1), "Int"), LAMBDA tbcol :
    Try(TableRequired(header, Name("TTYPE", i + 1), "String"), LAMBDA ttype :
    Try(TableOptional(header, Name("TNULL", i + 1), "String"), LAMBDA tnull :
    Try(TableColumnForm(HeaderFind(header, Name("TFORM", i + 1))), LAMBDA form :
    Try(TableColumnDisp(HeaderFind(header, Name("TDISP", i + 1))), LAMBDA disp :
    Try(TableOptional(header, Name("TSCAL", i + 1), "Float"), LAMBDA scale :
    Try(TableOptional(header, Name("TZERO", i + 1), "Float"), LAMBDA zero :
    Try(TableOptional(header, Name("TUNIT", i + 1), "String"), LAMBDA units :
    Try(TableOptional(header, Name("TDMIN", i + 1), "Float"), LAMBDA tdmin :
    Try(TableOptional(header, Name("TDMAX", i + 1), "Float"), LAMBDA tdmax :
    Try(TableOptional(header, Name("TLMIN", i + 1), "Float"), LAMBDA tlmin :
    Try(TableOptional(header, Name("TLMAX", i + 1), "Float"), LAMBDA tlmax :
    Ok([tcol |-> AsUsize(tbcol), fieldname |-> ttype, tnull |-> tnull,
        tform |-> form, tdisp |-> disp, scale |-> scale, zero |-> zero,
        units |-> units, tdmin |-> tdmin, tdmax |-> tdmax,
        tlmin |-> tlmin, tlmax |-> tlmax])))))))))))))

RECURSIVE TableColumns(_, _, _)
TableColumns(header, nfields, i) ==
    IF i >= nfields THEN Ok(<<>>)
    ELSE Try(TableColumn(header, i), LAMBDA column :
         Try(TableColumns(header, nfields, i + 1), LAMBDA rest :
         Ok(<<column>> \o rest)))

\* str::replace(s, "D", "E")
ReplaceDE(s) == [i \in 1..Len(s) |-> IF s[i] = "D" THEN "E" ELSE s[i]]

\* raw * scale + zero as the code applies it: zero only next to a scale
TableScaled(raw, column) ==
    IF column.scale # <<>>
    THEN IF column.zero # <<>>
         THEN DecAdd(DecMul(raw, column.scale[1]), column.zero[1])
         ELSE DecMul(raw, column.scale[1])
    ELSE raw

\* String::from_utf8 of the n bytes of the row from offset
TableText(rowbytes, offset, n) ==
    IF offset + n > Len(rowbytes) THEN Panic
    ELSE FromUtf8(Slice(rowbytes, offset, offset + n))

\* the values an Int field pushes on the row: the scaled one, then the
\* text parsed again as i64
TableIntCell(s, column) ==
    Try(IF column.scale # <<>>
        THEN Try(ParseF64(s), LAMBDA raw :
                 Ok(DecAsI64(TableScaled(raw, column))))
        ELSE ParseI64(s), LAMBDA first :
    Try(ParseI64(s), LAMBDA second :
    Ok(<<TValueInt(first), TValueInt(second)>>)))

TableFloatCell(s, column) ==
    Try(ParseF64(s), LAMBDA raw : Ok(<<TValueFloat(TableScaled(raw, column))>>))

\* the values the text of a field pushes on the row, by the column format
TableParse(text, column) ==
    CASE column.tform[1] = "Char" -> Ok(<<TValueString(text)>>)
      [] column.tform[1] = "Int" -> TableIntCell(Trim(text), column)
      [] column.tform[1] = "FloatD" ->
            TableFloatCell(ReplaceDE(Trim(text)), column)
      [] OTHER -> TableFloatCell(Trim(text), column)

\* whether the bytes at the column, as many as TNULLi has, are TNULLi
TableIsNull(rowbytes, column) ==
    IF column.tnull = <<>> THEN Ok(FALSE)
    ELSE Try(TableText(rowbytes, column.tcol - 1, Len(column.tnull[1])),
             LAMBDA s : Ok(s = column.tnull[1]))

\* the values the field of a column pushes on its row
TableCell(rowbytes, column) ==
    IF column.tcol = 0 THEN Panic
    ELSE Try(TableIsNull(rowbytes, column), LAMBDA null :
         IF null THEN Ok(<<TValueNull>>)
         ELSE Try(TableText(rowbytes, column.tcol - 1, column.tform[2]),
                  LAMBDA text : TableParse(text, column)))

RECURSIVE TableRow(_, _, _)
TableRow(rowbytes, columns, j) ==
    IF j > Len(columns) THEN Ok(<<>>)
    ELSE Try(TableCell(rowbytes, columns[j]), LAMBDA values :
         Try(TableRow(rowbytes, columns, j + 1), LAMBDA rest :
         Ok(values \o rest)))

RECURSIVE TableRows(_, _, _, _, _)
TableRows(rawbytes, nrowchars, nrows, columns, i) ==
    IF i >= nrows THEN Ok(<<>>)
    ELSE Try(TableRow(Slice(rawbytes, i * nrowchars, (i + 1) * nrowchars),
                      columns, 1), LAMBDA row :
         Try(TableRows(rawbytes, nrowchars, nrows, columns, i + 1),
             LAMBDA rest : Ok(<<row>> \o rest)))

\* the keywords at the indices 1 .. 7
TableFixed(header) ==
    Try(TableIntAt(header, 1, "BITPIX", "MissingKeyword", <<8>>,
                   "GenericError"), LAMBDA bitpix :
    Try(TableIntAt(header, 2, "NAXIS", "GenericError", <<2>>,
                   "GenericError"), LAMBDA naxis :
    Try(TableIntAt(header, 3, "NAXIS1", "GenericError", <<>>,
                   "GenericError"), LAMBDA naxis1 :
    Try(TableIntAt(header, 4, "NAXIS2", "GenericError", <<>>,
                   "GenericError"), LAMBDA naxis2 :
    Try(TableIntAt(header, 5, "PCOUNT", "GenericError", <<0>>,
                   "UnexpectedKeywordValue"), LAMBDA pcount :
    Try(TableIntAt(header, 6, "GCOUNT", "GenericError", <<1>>,
                   "UnexpectedKeywordValue"), LAMBDA gcount :
    Try(TableIntAt(header, 7, "TFIELDS", "GenericError", <<>>,
                   "GenericError"), LAMBDA tfields :
    Ok([nrowchars |-> AsUsize(naxis1), nrows |-> AsUsize(naxis2),
        nfields |-> AsUsize(tfields)]))))))))

\* the field name of every column
TableField(columns, name) == [j \in 1..Len(columns) |-> columns[j][name]]

TableOf(columns, data) ==
    [nfields |-> Len(columns),
     fieldnames |-> TableField(columns, "fieldname"),
     scale |-> TableField(columns, "scale"),
     zero |-> TableField(columns, "zero"),
     tlmin |-> TableField(columns, "tlmin"),
     tlmax |-> TableField(columns, "tlmax"),
     tdmin |-> TableField(columns, "tdmin"),
     tdmax |-> TableField(columns, "tdmax"),
     data |-> data,
     units |-> TableField(columns, "units")]

TableFromBytes(header, rawbytes) ==
    Try(TableFixed(header), LAMBDA fixed :
    Try(TableColumns(header, fixed.nfields, 0), LAMBDA columns :
    IF Len(rawbytes) < fixed.nrows * fixed.nrowchars THEN Err("GenericError")
    ELSE Try(TableRows(rawbytes, fixed.nrowchars, fixed.nrows, columns, 0),
             LAMBDA data :
         Ok(<<HDUDataTable(TableOf(columns, data)),
              fixed.nrows * fixed.nrowchars>>))))

(***************************************************************************)
(* bintable/mod.rs: BinTable::from_bytes and BinTable::at                  *)
(***************************************************************************)
string_or_err(header, key) ==
    IF HeaderValue(header, key) = <<>> THEN Err("MissingKeyword")
    ELSE IF HeaderValue(header, key)[1][1] = "String"
    THEN Ok(HeaderValue(header, key)[1][2])
    ELSE Err("UnexpectedValueType")

RECURSIVE BinTableForms(_, _, _)
BinTableForms(header, ncols, i) ==
    IF i >= ncols THEN Ok(<<>>)
    ELSE Try(string_or_err(header, Name("TFORM", i + 1)), LAMBDA str :
         Try(TFormFromString(str), LAMBDA form :
         Try(BinTableForms(header, ncols, i + 1), LAMBDA rest :
         Ok(<<form>> \o rest))))

\* the keywords at the indices 1 .. 7, then THEAP
BinTableFixed(header) ==
    Try(check_int_keyword_at_index(header, 1, "BITPIX", 8), LAMBDA bitpix :
    Try(check_int_keyword_at_index(header, 2, "NAXIS", 2), LAMBDA naxis :
    Try(get_keyword_int_at_index(header, 3, "NAXIS1"), LAMBDA naxis1 :
    Try(get_keyword_int_at_index(header, 4, "NAXIS2"), LAMBDA naxis2 :
    Try(get_keyword_int_at_index(header, 5, "PCOUNT"), LAMBDA pcount :
    Try(check_int_keyword_at_index(header, 6, "GCOUNT", 1), LAMBDA gcount :
    Try(get_keyword_int_at_index(header, 7, "TFIELDS"), LAMBDA tfields :
    Ok([rowbytes |-> AsUsize(naxis1), nrows |-> AsUsize(naxis2),
        pcount |-> AsUsize(pcount), ncols |-> AsUsize(tfields),
        theap |-> IF value_int(header, "THEAP") # <<>>
                  THEN AsUsize(value_int(header, "THEAP")[1])
                  ELSE AsUsize(naxis1) * AsUsize(naxis2)]))))))))

\* the optional keyword of every column, by prefix and type
BinTableOptions(header, ncols, prefix, type) ==
    [i \in 1..ncols |-> HeaderValueOfType(header, Name(prefix, i), type)]

BinTableOf(header, fixed, forms, rawbytes, nbytes) ==
    IF Len(rawbytes) < nbytes
    THEN ErrWith("InvalidDataSize", <<nbytes, Len(rawbytes)>>)
    ELSE Ok(<<HDUDataBinTable(
                [ncols |-> fixed.ncols, nrows |-> fixed.nrows,
                 theap |-> fixed.theap, pcount |-> fixed.pcount,
                 rowbytes |-> fixed.rowbytes,
                 fieldname |-> BinTableOptions(header, fixed.ncols, "TTYPE", "String"),
                 scale |-> BinTableOptions(header, fixed.ncols, "TSCAL", "Float"),
                 zero |-> BinTableOptions(header, fixed.ncols, "TZERO", "Float"),
                 tdisp |-> <<>>,
                 units |-> BinTableOptions(header, fixed.ncols, "TUNIT", "String"),
                 tdmin |-> BinTableOptions(header, fixed.ncols, "TDMIN", "Float"),
                 tdmax |-> BinTableOptions(header, fixed.ncols, "TDMAX", "Float"),
                 tlmin |-> BinTableOptions(header, fixed.ncols, "TLMIN", "Float"),
                 tlmax |-> BinTableOptions(header, fixed.ncols, "TLMAX", "Float"),
                 tnull |-> BinTableOptions(header, fixed.ncols, "TNULL", "Int"),
                 tform |-> forms,
                 raw |-> SubSeq(rawbytes, 1, nbytes)]),
              nbytes>>)

\* the decoder with the heap left out of the bytes it takes
BinTableFromBytes_NoHeap(header, rawbytes) ==
    Try(BinTableFixed(header), LAMBDA fixed :
    Try(BinTableForms(header, fixed.ncols, 0), LAMBDA forms :
    BinTableOf(header, fixed, forms, rawbytes, fixed.theap)))

BinTableFromBytes(header, rawbytes) ==
    Try(BinTableFixed(header), LAMBDA fixed :
    Try(BinTableForms(header, fixed.ncols, 0), LAMBDA forms :
    BinTableOf(header, fixed, forms, rawbytes, fixed.pcount + fixed.theap)))

\* the unit of a cell: the bytes of one element of the type
BinTableUnit(dtype) == TFormBytes(TForm(dtype, 1))

\* the bytes BinTable::at reads at offset for a descriptor
BinTableReads(tf) ==
    IF tf.repeats = 1 THEN BinTableUnit(tf.dtype)
    ELSE IF tf.dtype = <<"Bit">> THEN (tf.repeats + 7) \div 8
    ELSE tf.repeats * BinTableUnit(tf.dtype)

\* the eight flags of a byte, bit 0 first
BinTableBits(byte) == [j \in 1..8 |-> (byte \div (2 ^ (j - 1))) % 2 = 1]

RECURSIVE Flatten(_)
Flatten(ss) == IF ss = <<>> THEN <<>> ELSE Head(ss) \o Flatten(Tail(ss))

\* the elements of size bytes each that make up the bytes read
BinTableElements(bytes, size) ==
    [i \in 1..(Len(bytes) \div size) |->
        SubSeq(bytes, (i - 1) * size + 1, i * size)]

\* the number whose bytes, most significant first, are given
RECURSIVE BeUnsigned(_)
BeUnsigned(bytes) ==
    IF bytes = <<>> THEN 0
    ELSE BeUnsigned(SubSeq(bytes, 1, Len(bytes) - 1)) * 256 + bytes[Len(bytes)]

\* i16 / i32::from_be_bytes: the first byte carries the sign
FromBeBytes(bytes) ==
    BeUnsigned(<<IF Head(bytes) >= 128 THEN Head(bytes) - 256 ELSE Head(bytes)>>
               \o Tail(bytes))

\* from_be_bytes of an element: an integer of at most 32 bits by its value,
\* one of 64 bits by its two halves of 32 bits, most significant first, and
\* a float by the integer of its bits
BinTableNumber(bytes) ==
    IF Len(bytes) <= 4 THEN FromBeBytes(bytes)
    ELSE <<FromBeBytes(SubSeq(bytes, 1, 4)), FromBeBytes(SubSeq(bytes, 5, 8))>>

\* the value of a cell from the bytes read for it; a complex number is the
\* pair of its two halves
BinTableValue(tf, bytes) ==
    LET k == tf.dtype[1]
        one == tf.repeats = 1
        size == BinTableUnit(tf.dtype)
        halves(e) == <<BinTableNumber(SubSeq(e, 1, size \div 2)),
                       BinTableNumber(SubSeq(e, size \div 2 + 1, size))>>
        elements == BinTableElements(bytes, size)
    IN  CASE k = "Logical" ->
                IF one THEN <<"Logical", bytes[1] # 0>>
                ELSE <<"LogicalArr", [i \in 1..Len(bytes) |-> bytes[i] # 0]>>
          [] k = "Bit" ->
                IF one THEN <<"Bit", bytes[1] # 0>>
                ELSE <<"BitArr", Flatten([i \in 1..Len(bytes) |->
                                            BinTableBits(bytes[i])])>>
          [] k = "UnsignedByte" ->
                IF one THEN <<"UnsignedByte", bytes[1]>>
                ELSE <<"UnsignedByteArr", bytes>>
          [] k = "Char" ->
                IF one THEN <<"Char", CharOf(bytes[1])>>
                ELSE <<"String", [i \in 1..Len(bytes) |-> CharOf(bytes[i])]>>
          [] k \in {"Complex32", "Complex64"} ->
                IF one THEN <<k, halves(bytes)>>
                ELSE <<k \o "Arr", [i \in 1..Len(elements) |->
                                        halves(elements[i])]>>
          [] OTHER ->
                IF one THEN <<k, BinTableNumber(bytes)>>
                ELSE <<k \o "Arr", [i \in 1..Len(elements) |->
                                        BinTableNumber(elements[i])]>>

\* the column offset left out of the start of a cell
BinTableColumnOffset_Zero(forms, col) == 0
RECURSIVE BinTableColumnOffset(_, _)
BinTableColumnOffset(forms, col) ==
    IF col = 0 THEN 0
    ELSE BinTableColumnOffset(forms, col - 1) + TFormBytes(forms[col])

\* the cell of an existing row and column
BinTableCell(bintable, row, col) ==
    LET offset == bintable.rowbytes * row
                  + BinTableColumnOffset(bintable.tform, col)
        tf == bintable.tform[col + 1]
        reads == BinTableReads(tf)
    IN  IF tf.dtype[1] \in {"ArrayD32", "ArrayD64"} THEN Err("GenericError")
        ELSE IF reads > 0 /\ offset + reads > Len(bintable.raw) THEN Panic
        ELSE Ok(BinTableValue(tf, Slice(bintable.raw, offset, offset + reads)))

\* the column tested before the row
BinTableAt_ColFirst(bintable, row, col) ==
    IF col >= bintable.ncols
    THEN ErrWith("InvalidColumn", <<col, bintable.ncols>>)
    ELSE IF row >= bintable.nrows
    THEN ErrWith("InvalidRow", <<row, bintable.nrows>>)
    ELSE BinTableCell(bintable, row, col)
BinTableAt(bintable, row, col) ==
    IF row >= bintable.nrows
    THEN ErrWith("InvalidRow", <<row, bintable.nrows>>)
    ELSE IF col >= bintable.ncols
    THEN ErrWith("InvalidColumn", <<col, bintable.ncols>>)
    ELSE BinTableCell(bintable, row, col)

(***************************************************************************)
(* header/fitsblock.rs and hdu/mod.rs: the block scanner and the           *)
(* dispatcher.  A buffer is [recs, data]: recs, what Keyword::from_bytes   *)
(* makes of each 80-byte record of the header blocks (a Result), and data, *)
(* the bytes after them.  The header blocks of a buffer end with the block *)
(* of END, so that the bytes handed to a decoder are data.                 *)
(***************************************************************************)
BlockBytes == 2880
BlockRecords == 36

BufferLen(buffer) == RecordLen * Len(buffer.recs) + Len(buffer.data)

\* FITSBlock::from_bytes on the records of one block
FITSBlockFromBytes(records) ==
    IF RecordLen * Len(records) # BlockBytes THEN Err("InvalidHeader")
    ELSE Try(FirstFailure(records), LAMBDA none :
             Ok([i \in 1..Len(records) |-> records[i].val]))

\* the index of the last END of a block, or its length when it has none
BlockEnd_Last(block) ==
    IF \E i \in 1..Len(block) : block[i].name = "END"
    THEN CHOOSE i \in 1..Len(block) :
            /\ block[i].name = "END"
            /\ \A j \in (i + 1)..Len(block) : block[j].name # "END"
    ELSE Len(block)
\* the index of the first END of a block, or its length when it has none
BlockEnd(block) ==
    IF \E i \in 1..Len(block) : block[i].name = "END"
    THEN CHOOSE i \in 1..Len(block) :
            /\ block[i].name = "END"
            /\ \A j \in 1..(i - 1) : block[j].name # "END"
    ELSE Len(block)

\* the keywords a block adds to the header, up to END; found tells
\* whether END was met
BlockKeywords(block) ==
    [header |-> SelectSeq(SubSeq(block, 1, BlockEnd(block)),
                          LAMBDA k : k.name # ""),
     found |-> \E i \in 1..Len(block) : block[i].name = "END"]

\* the loop over the header blocks: Ok([header, nheaders])
RECURSIVE ScanHeader(_, _, _)
ScanAdd(buffer, nheaders, header, added) ==
    IF added.found
    THEN Ok([header |-> header \o added.header, nheaders |-> nheaders + 1])
    ELSE ScanHeader(buffer, nheaders + 1, header \o added.header)

ScanHeader(buffer, nheaders, header) ==
    IF (nheaders + 1) * BlockBytes > BufferLen(buffer) THEN Panic
    ELSE Try(FITSBlockFromBytes(
                SubSeq(buffer.recs, nheaders * BlockRecords + 1,
                       (nheaders + 1) * BlockRecords)), LAMBDA block :
             ScanAdd(buffer, nheaders, header, BlockKeywords(block)))

\* the payload of the HDU by its first keyword: Ok(<<data, nbytes>>); the
\* first form hands a TABLE extension to the binary-table decoder
HDUDecode_TableAsBinTable(header, rawbytes) ==
    IF header = <<>> THEN Ok(<<HDUDataNone, 0>>)
    ELSE IF At(header, 0).name = "SIMPLE" THEN ImageFromBytes(header, rawbytes)
    ELSE IF At(header, 0).name = "XTENSION"
    THEN LET value == At(header, 0).value
         IN  IF value = KString(Chars("IMAGE"))
             THEN ImageFromBytes(header, rawbytes)
             ELSE IF value = KString(Chars("TABLE"))
             THEN BinTableFromBytes(header, rawbytes)
             ELSE IF value = KString(Chars("BINTABLE"))
             THEN BinTableFromBytes(header, rawbytes)
             ELSE Err("UnsupportedExtension")
    ELSE Ok(<<HDUDataNone, 0>>)
HDUDecode(header, rawbytes) ==
    IF header = <<>> THEN Ok(<<HDUDataNone, 0>>)
    ELSE IF At(header, 0).name = "SIMPLE" THEN ImageFromBytes(header, rawbytes)
    ELSE IF At(header, 0).name = "XTENSION"
    THEN LET value == At(header, 0).value
         IN  IF value = KString(Chars("IMAGE"))
             THEN ImageFromBytes(header, rawbytes)
             ELSE IF value = KString(Chars("TABLE"))
             THEN TableFromBytes(header, rawbytes)
             ELSE IF value = KString(Chars("BINTABLE"))
             THEN BinTableFromBytes(header, rawbytes)
             ELSE Err("UnsupportedExtension")
    ELSE Ok(<<HDUDataNone, 0>>)

\* offset advanced to the next multiple of the block size
PadToBlock(offset) ==
    IF offset % BlockBytes # 0
    THEN offset + (BlockBytes - (offset % BlockBytes))
    ELSE offset

\* HDU::from_bytes: Ok(<<hdu, bytes_consumed>>)
HDUFromBytes(buffer) ==
    Try(ScanHeader(buffer, 0, <<>>), LAMBDA scan :
    Try(HDUDecode(scan.header, buffer.data), LAMBDA decoded :
    Ok(<<[header |-> scan.header, data |-> decoded[1]],
         PadToBlock(scan.nheaders * BlockBytes + decoded[2])>>)))

(***************************************************************************)
(* fits/mod.rs: FITS::from_file.  The file is a sequence of chunks, each   *)
(* the records of whole header blocks (recs, as parse results) followed by *)
(* payload bytes (data), which zeros pad to a whole block when padded.     *)
(* Its blocks are header blocks, known by their records, and data blocks,  *)
(* known by their bytes.                                                   *)
(***************************************************************************)
Zeros(n) == [i \in 1..n |-> 0]

\* the data block of a chunk
FileDataBlock(chunk) ==
    IF chunk.padded /\ Len(chunk.data) % BlockBytes # 0
    THEN chunk.data \o Zeros(BlockBytes - (Len(chunk.data) % BlockBytes))
    ELSE chunk.data

\* the record blocks of a chunk
FileRecordBlocks(recs) ==
    [i \in 1..((Len(recs) + BlockRecords - 1) \div BlockRecords) |->
        [recs |-> SubSeq(recs, (i - 1) * BlockRecords + 1,
                         IF i * BlockRecords < Len(recs)
                         THEN i * BlockRecords ELSE Len(recs)),
         bytes |-> <<>>]]

FileChunkBlocks(chunk) ==
    FileRecordBlocks(chunk.recs)
    \o (IF chunk.data = <<>> THEN <<>>
        ELSE <<[recs |-> <<>>, bytes |-> FileDataBlock(chunk)]>>)

RECURSIVE FileBlocks(_)
FileBlocks(chunks) ==
    IF chunks = <<>> THEN <<>>
    ELSE FileChunkBlocks(Head(chunks)) \o FileBlocks(Tail(chunks))

BlockLen(block) == RecordLen * Len(block.recs) + Len(block.bytes)

RECURSIVE BlocksLen(_)
BlocksLen(blocks) ==
    IF blocks = <<>> THEN 0 ELSE BlockLen(Head(blocks)) + BlocksLen(Tail(blocks))

\* rawbytes.len()
FileLen(chunks) == BlocksLen(FileBlocks(chunks))

\* the records a block shows to the scanner: those of a header block,
\* the parse of every 80 bytes of a data block
BlockAsRecords(block) ==
    IF block.recs # <<>> THEN block.recs
    ELSE [i \in 1..(Len(block.bytes) \div RecordLen) |->
            KeywordNew([j \in 1..RecordLen |->
                            CharOf(block.bytes[(i - 1) * RecordLen + j])])]

\* the bytes a block shows to a decoder: those of a data block; the bytes
\* of a header block are not kept and read as blanks
BlockAsBytes(block) ==
    IF block.recs # <<>>
    THEN [i \in 1..(RecordLen * Len(block.recs)) |-> ByteOf(" ")]
    ELSE block.bytes

\* the scanner reads no block after one that holds END or a record that
\* does not parse
BlockStops(recs) ==
    \E i \in 1..Len(recs) : ~IsOk(recs[i]) \/ recs[i].val.name = "END"

\* the whole blocks from block b on that the scanner reads as header
RECURSIVE FileHeaderBlocks(_, _)
FileHeaderBlocks(blocks, b) ==
    IF b > Len(blocks) THEN 0
    ELSE IF BlockLen(blocks[b]) < BlockBytes THEN 0
    ELSE IF BlockStops(BlockAsRecords(blocks[b])) THEN 1
    ELSE 1 + FileHeaderBlocks(blocks, b + 1)

\* &rawbytes[offset..] as a buffer: n header blocks from block b, then bytes
FileBufferOf(blocks, b, n) ==
    [recs |-> Flatten([i \in 1..n |-> BlockAsRecords(blocks[b + i - 1])]),
     data |-> Flatten([i \in 1..(Len(blocks) - (b + n) + 1) |->
                            BlockAsBytes(blocks[b + n + i - 1])])]

FileBufferAt(blocks, b) == FileBufferOf(blocks, b, FileHeaderBlocks(blocks, b))

FileBuffer(chunks, cursor) ==
    FileBufferAt(FileBlocks(chunks), (cursor \div BlockBytes) + 1)

\* a loop that passes over the HDU that failed and reads on at the next block
FromFileRead_Skip(cursor, pushed, result) ==
    IF IsOk(result)
    THEN [pc |-> "reading", offset |-> cursor + result.val[2],
          hdus |-> Append(pushed, result.val[1]), fits |-> NoResult]
    ELSE [pc |-> "reading", offset |-> cursor + BlockBytes, hdus |-> pushed,
          fits |-> NoResult]
\* the loop after HDU::from_bytes returned result at the cursor
FromFileRead(cursor, pushed, result) ==
    IF IsOk(result)
    THEN [pc |-> "reading", offset |-> cursor + result.val[2],
          hdus |-> Append(pushed, result.val[1]), fits |-> NoResult]
    ELSE [pc |-> "done", offset |-> cursor, hdus |-> pushed, fits |-> result]

\* one turn of `while offset < rawbytes.len()`, or the return after it
FromFileStep(chunks, cursor, pushed) ==
    IF cursor < FileLen(chunks)
    THEN FromFileRead(cursor, pushed,
                      HDUFromBytes(FileBuffer(chunks, cursor)))
    ELSE [pc |-> "done", offset |-> cursor, hdus |-> pushed,
          fits |-> Ok(pushed)]

(***************************************************************************)
(* The inputs of the TFORM runs: a run of digits, then nothing or one      *)
(* character, then a tail.                                                 *)
(***************************************************************************)
MaxDigits == 2
TFDigitChars == {"0", "1", "3", "6"}
TFTypeChars == {TFormChars[i] : i \in 1..Len(TFormChars)} \cup {"Z", "("}
TFTails == {<<>>, <<"E">>, <<"(", "3", ")">>, <<"E", "(", "3", "0", ")">>,
            <<"(", "E", ")">>}

RECURSIVE SeqsUpTo(_, _)
SeqsUpTo(S, n) ==
    IF n = 0 THEN {<<>>}
    ELSE LET shorter == SeqsUpTo(S, n - 1)
         IN  shorter \cup {<<c>> \o s : c \in S, s \in {t \in shorter : Len(t) = n - 1}}

\* a run of digits whose value does not fit usize
TFLongDigits == [i \in 1..Len(UsizeMaxDigits) |-> "9"]

TFormStrings ==
    LET nums == SeqsUpTo(TFDigitChars, MaxDigits) \cup {TFLongDigits}
    IN  nums \cup {d \o <<c>> \o t : d \in nums, c \in TFTypeChars, t \in TFTails}

(***************************************************************************)
(* The inputs of the keyword runs: an 8-byte name field, the 2-byte value  *)
(* indicator, the 20-byte value field (bytes 10..29) and the rest (bytes   *)
(* 30..79).                                                                *)
(***************************************************************************)
Spaces(n) == [i \in 1..n |-> " "]
Pad(s, n) == s \o Spaces(n - Len(s))
RightJust(s, n) == Spaces(n - Len(s)) \o s

KwNames ==
    {Chars("SIMPLE"), Chars("TEST-1_A"), Chars("A B"), Chars("Key"),
     <<"A", CharOf(255)>>}
KwIndicators == {Chars("= "), Chars("  ")}
KwFields ==
    {RightJust(Chars(t), 20) :
        t \in {"T", "F", "8", "-12", "1.5", "1.5E2", "1.0D2", "", "12T",
               "+", "X", "1.5E"}}
    \cup {Pad(Chars(t), 20) :
            t \in {"'AB'", "'O''K / x'", "'NOEND", "ABC", "T", "8",
                   "(1, 2)", "(1.5, 2.5)"}}
    \cup {Pad(Chars(t), 19) \o <<b>> :
            t \in {"'ABC'", "'A", "ABC", "1"}, b \in {"T", "F"}}
KwTails ==
    {Pad(Chars(t), 50) :
        t \in {"", " / comment", " /", " / a / b ", "/x", " (1, 2) / c",
               "(1.5, 2)", "(1, 2, 3)", "  no comment"}}
    \cup {RightJust(<<"/">>, 50)}

KeywordRecords ==
    {Pad(n, 8) \o i \o f \o t :
        n \in KwNames, i \in KwIndicators, f \in KwFields, t \in KwTails}
    \cup {Chars("SIMPLE  =")}

(***************************************************************************)
(* The inputs of the HDU runs: buffers made of a header and a payload.     *)
(* An input is [origin, rawbytes]; origin tells the family of the header   *)
(* and what was done to it: <<"none">>, <<"swap", i, j>> (the keywords at  *)
(* the indices i and j exchanged) or <<"omit", i>> (the keyword at index i *)
(* left out).                                                              *)
(***************************************************************************)
MaxDim == 2
MaxRows == 2

Str(text) == KString(Chars(text))
KwEnd == KW("END", KNone)
Blank == KeywordDefault

\* the records of the header blocks: the keywords, then blank records up
\* to the end of the block
Records(keywords) ==
    LET n == Len(keywords)
        total == ((n + BlockRecords - 1) \div BlockRecords) * BlockRecords
    IN  [i \in 1..total |-> IF i <= n THEN Ok(keywords[i]) ELSE Ok(Blank)]

Buffer(keywords, data) == [recs |-> Records(keywords), data |-> data]

Input(family, header, data) ==
    [origin |-> [family |-> family, mutation |-> <<"none">>],
     rawbytes |-> Buffer(header, data)]

\* payloads: the bytes 1, 2, 3 ... and the elements 1, 2, 3 ... of size
\* bytes each, most significant byte first
CountingBytes(n) == [i \in 1..n |-> i % 256]
CountingElements(n, size) ==
    [i \in 1..n |-> IF i % size = 0 THEN (i \div size) % 256 ELSE 0]

ImageHeader(first, bitpix, axes, extra) ==
    <<first, KW("BITPIX", KInt(bitpix)), KW("NAXIS", KInt(Len(axes)))>>
    \o [i \in 1..Len(axes) |-> KW(Name("NAXIS", i), KInt(axes[i]))]
    \o extra \o <<KwEnd>>

KwSimple == KW("SIMPLE", KBool(TRUE))
KwImage == KW("XTENSION", Str("IMAGE"))
KwCounts == <<KW("PCOUNT", KInt(0)), KW("GCOUNT", KInt(1))>>

AxesLists == SeqsUpTo(0..MaxDim, 2)
BitpixValues == {8, 16, -32, 7}

\* the size of an element as BITPIX states it
ElementSize(bitpix) == (IF bitpix < 0 THEN 0 - bitpix ELSE bitpix) \div 8

\* the bytes the Image decoder reads for the axes
ImageNeed(bitpix, axes) == Product(axes) * ElementSize(bitpix)

ImagePayloads(bitpix, axes) ==
    LET need == ImageNeed(bitpix, axes)
    IN  {CountingBytes(n) : n \in {0, need, need + 1}}
        \cup {CountingElements(need, ElementSize(bitpix))}

WCSExtras ==
    {<<>>,
     <<KW("CRPIX1", KFloat(Dec(15, -1))), KW("CD1_1", KFloat(Dec(2, 0)))>>,
     <<KW("WCSAXES", Str("2"))>>}

PrimaryImages ==
    UNION {{Input("image", ImageHeader(KwSimple, b, axes, <<>>), data) :
                data \in ImagePayloads(b, axes)} :
            b \in BitpixValues, axes \in AxesLists}
    \cup {Input("image", ImageHeader(KwSimple, 8, axes, extra),
                CountingBytes(ImageNeed(8, axes))) :
            axes \in AxesLists, extra \in WCSExtras}

\* primary images with a negative axis or a negative NAXIS; NAXIS = -65535
\* has the low 16 bits of 1
NegativeImages ==
    {Input("image", ImageHeader(KwSimple, b, axes, <<>>), CountingBytes(n)) :
        b \in {8, 16},
        axes \in {<<-1>>, <<-1, 0>>, <<-1, 2>>, <<2, -1>>, <<-1, -1>>},
        n \in {0, 2}}
    \cup
    {Input("image",
           [ImageHeader(KwSimple, 8, axes, <<>>) EXCEPT
               ![3] = KW("NAXIS", KInt(naxis))],
           CountingBytes(2)) :
        axes \in {<<>>, <<2>>}, naxis \in {-1, 1 - 65536}}

\* IMAGE extensions: PCOUNT and GCOUNT right after the axes, as the
\* standard orders them, or one keyword further
ImageExtensions ==
    {Input("image",
           ImageHeader(KwImage, b, axes, before \o KwCounts),
           CountingBytes(ImageNeed(b, axes))) :
        b \in {8, 16}, axes \in AxesLists,
        before \in {<<>>, <<KW("EXTNAME", Str("A"))>>}}

\* the keywords of a column of an ASCII table; opt holds the optional ones
TableColumnKeywords(i, tbcol, form, opt) ==
    <<KW(Name("TBCOL", i), KInt(tbcol)), KW(Name("TFORM", i), Str(form)),
      KW(Name("TTYPE", i), Str("COL"))>> \o opt

TableHeader(nrowchars, nrows, columns) ==
    <<KW("XTENSION", Str("TABLE")), KW("BITPIX", KInt(8)),
      KW("NAXIS", KInt(2)), KW("NAXIS1", KInt(nrowchars)),
      KW("NAXIS2", KInt(nrows)), KW("PCOUNT", KInt(0)),
      KW("GCOUNT", KInt(1)), KW("TFIELDS", KInt(Len(columns)))>>
    \o Flatten(columns) \o <<KwEnd>>

\* nothing, or the keyword with one of the values
OptionalKeyword(name, values) == {<<>>} \cup {<<KW(name, v)>> : v \in values}

TableFieldWidth == Len("-99")
TableForms == {"I3", "F3.1"}
TableFieldTexts == {"-99", " -9", "2.5", " 12"}
TableOptions ==
    {n \o sc \o z :
        n \in OptionalKeyword("TNULL1", {Str("-9"), Str("-99")}),
        sc \in OptionalKeyword("TSCAL1", {KFloat(Dec(1, 0)), KFloat(Dec(2, 0))}),
        z \in OptionalKeyword("TZERO1", {KFloat(Dec(0, 0)), KFloat(Dec(15, -1))})}

\* the rows of a one-column table, each a field text
TableRowTexts == SeqsUpTo(TableFieldTexts, MaxRows)

Tables ==
    {Input("table",
           TableHeader(TableFieldWidth, Len(rows),
                       <<TableColumnKeywords(1, 1, form, opt)>>),
           AsBytes(Flatten([i \in 1..Len(rows) |-> Chars(rows[i])]))) :
        form \in TableForms, opt \in TableOptions, rows \in TableRowTexts}
    \cup
    {Input("table",
           TableHeader(TableFieldWidth + 2, 1,
                       <<TableColumnKeywords(1, 1, form, <<>>),
                         TableColumnKeywords(2, tbcol, "A2", <<>>)>>),
           AsBytes(Chars(text))) :
        form \in TableForms \cup {"F3", "E3.1", "D3.1", "X3"},
        tbcol \in {0, 4, 5}, text \in {" 12AB", "2D1AB", " 12"}}

BinTableHeader(rowbytes, nrows, pcount, forms, extra) ==
    <<KW("XTENSION", Str("BINTABLE")), KW("BITPIX", KInt(8)),
      KW("NAXIS", KInt(2)), KW("NAXIS1", KInt(rowbytes)),
      KW("NAXIS2", KInt(nrows)), KW("PCOUNT", KInt(pcount)),
      KW("GCOUNT", KInt(1)), KW("TFIELDS", KInt(Len(forms)))>>
    \o [i \in 1..Len(forms) |-> KW(Name("TFORM", i), Str(forms[i]))]
    \o extra \o <<KwEnd>>

\* the TFORMs of the columns with the width of the row they make
BinTableLayouts ==
    {<<<<"1B">>, 1>>, <<<<"2I">>, 4>>, <<<<"0A">>, 0>>, <<<<"3X">>, 1>>,
     <<<<"1PB(2)">>, 8>>, <<<<"1B", "2I">>, 5>>, <<<<"1J", "1B">>, 5>>,
     <<<<"1Z">>, 1>>, <<<<"1X", "2C">>, 17>>, <<<<"9X", "1B">>, 2>>,
     <<<<"8X">>, 1>>}

\* payloads of bytes below and above 128
BinTableBytes(n) == [i \in 1..n |-> (67 * i) % 256]

BinTables ==
    UNION {{Input("bintable",
                  BinTableHeader(layout[2], nrows, pcount, layout[1], theap),
                  BinTableBytes(n)) :
                n \in {0, layout[2] * nrows + pcount}
                      \cup {pcount + t[1].value[2] : t \in {theap} \ {<<>>}}} :
            layout \in BinTableLayouts, nrows \in 0..MaxRows, pcount \in {0, 2},
            theap \in OptionalKeyword("THEAP", {KInt(0), KInt(MaxRows * 8 + 1)})}
    \cup
    {Input("bintable",
           BinTableHeader(5, 1, 0, <<"1B", "2I">>, described),
           BinTableBytes(5)) :
        described \in {<<KW("TTYPE2", Str("B")), KW("TSCAL1", KFloat(Dec(2, 0))),
                         KW("TNULL2", KInt(5)), KW("TUNIT1", Str("m")),
                         KW("TDISP1", Str("I3"))>>,
                       <<KW("TTYPE1", KInt(1)), KW("TZERO2", KFloat(Dec(1, 0))),
                         KW("TLMIN1", KFloat(Dec(1, 0))),
                         KW("TDMAX2", KFloat(Dec(3, 0)))>>}}

\* headers the dispatcher does not decode, and buffers the scanner cannot
\* read: a record Keyword parsing rejects, no END, a last block cut short
Others ==
    {Input("other", header, CountingBytes(n)) :
        header \in {<<KwEnd>>,
                    <<KW("FOO", KInt(1)), KW("BITPIX", KInt(8)), KwEnd>>,
                    <<KW("XTENSION", Str("FOO")), KwEnd>>,
                    <<KW("XTENSION", KInt(5)), KwEnd>>,
                    <<KW("XTENSION", Str("image")), KwEnd>>,
                    <<KW("FOO", KInt(1)), Blank, KW("BAR", KInt(2)), KwEnd,
                      KW("BAZ", KInt(3)), KwEnd, KW("QUX", KInt(4))>>,
                    <<KW("FOO", KInt(1)), KW("END", KInt(5)),
                      KW("BAR", KInt(2)), KwEnd>>,
                    [i \in 1..BlockRecords |-> KW("HISTORY", KNone)]
                        \o <<Blank, KW("FOO", KInt(1)), KwEnd,
                             KW("BAR", KInt(2))>>,
                    <<KwSimple, KW("BITPIX", KInt(8)), KW("NAXIS", KInt(0))>>,
                    ImageHeader(KwSimple, 8, <<2>>,
                                [i \in 1..BlockRecords |->
                                    KW("HISTORY", KNone)])},
        n \in {0, 2}}
    \cup
    {[origin |-> [family |-> "other", mutation |-> <<"none">>],
      rawbytes |-> [recs |-> recs, data |-> <<>>]] :
        recs \in {[Records(<<KwSimple, KwEnd>>) EXCEPT
                      ![1] = Err("InvalidKeywordRecord")],
                  [Records(<<KwSimple, KwEnd>>) EXCEPT
                      ![3] = Err("InvalidCharacterInKeyword")],
                  SubSeq(Records(<<KwSimple, KwEnd>>), 1, BlockRecords - 1)}}

\* the headers the positional checks are tried on, each valid, with the
\* number of keywords the standard fixes the place of after the first
Bases ==
    {[family |-> "image", required |-> 4, data |-> CountingBytes(2),
      header |-> ImageHeader(KwSimple, 8, <<1, 2>>, <<>>)],
     [family |-> "image", required |-> 2, data |-> CountingBytes(1),
      header |-> ImageHeader(KwSimple, 16, <<>>, <<KW("EXTEND", KBool(TRUE))>>)],
     [family |-> "image", required |-> 5, data |-> CountingBytes(2),
      header |-> ImageHeader(KwImage, 8, <<2>>, KwCounts)],
     [family |-> "image", required |-> 4, data |-> CountingBytes(1),
      header |-> ImageHeader(KwImage, 8, <<>>,
                             KwCounts \o <<KW("EXTNAME", Str("A"))>>)],
     [family |-> "table", required |-> 7, data |-> AsBytes(Chars(" 12")),
      header |-> TableHeader(TableFieldWidth, 1,
                             <<TableColumnKeywords(1, 1, "I3", <<>>)>>)],
     [family |-> "bintable", required |-> 7, data |-> CountingBytes(2),
      header |-> BinTableHeader(1, 2, 0, <<"1B">>, <<>>)]}

Mutations(required) ==
    {<<"swap", p[1], p[2]>> :
        p \in {q \in (1..required) \X (1..required) : q[1] < q[2]}}
    \cup {<<"omit", i>> : i \in 1..required}

\* the header with the keywords at the indices i and j exchanged, or with
\* the keyword at index i left out
Mutate(header, mutation) ==
    IF mutation[1] = "swap"
    THEN [header EXCEPT ![mutation[2] + 1] = header[mutation[3] + 1],
                        ![mutation[3] + 1] = header[mutation[2] + 1]]
    ELSE SubSeq(header, 1, mutation[2])
         \o SubSeq(header, mutation[2] + 2, Len(header))

Mutated ==
    UNION {{[origin |-> [family |-> b.family, mutation |-> m],
             rawbytes |-> Buffer(Mutate(b.header, m), b.data)] :
                m \in Mutations(b.required)} \cup
           {Input(b.family, b.header, b.data)} : b \in Bases}

HDUInputs ==
    PrimaryImages \cup NegativeImages \cup ImageExtensions \cup Tables
    \cup BinTables
    \cup Others \cup Mutated

\* the files: up to MaxHDUs whole chunks, then possibly a chunk only the
\* end of a file can hold
MaxHDUs == 2

FileChunk(header, data, padded) ==
    [recs |-> Records(header), data |-> data, padded |-> padded]

\* chunks of whole blocks: images with and without pixels, a binary table,
\* an extension of no known kind, a header with a record that does not
\* parse, a header followed by a payload it does not declare
WholeChunks ==
    {FileChunk(ImageHeader(KwSimple, 8, <<2>>, <<>>), CountingBytes(2), TRUE),
     FileChunk(ImageHeader(KwSimple, 8, <<0>>, <<>>), <<>>, TRUE),
     FileChunk(ImageHeader(KwSimple, 8, <<>>, <<>>), <<>>, TRUE),
     FileChunk(BinTableHeader(1, 1, 0, <<"1B">>, <<>>), CountingBytes(1), TRUE),
     FileChunk(<<KW("XTENSION", Str("FOO")), KwEnd>>, <<>>, TRUE),
     [FileChunk(<<KwSimple, KwEnd>>, <<>>, TRUE) EXCEPT
         !.recs[2] = Err("InvalidKeywordRecord")],
     FileChunk(ImageHeader(KwSimple, 8, <<0>>, <<>>), CountingBytes(2), TRUE)}

\* chunks that end a file: a payload without its padding, a header block
\* cut short, a header without END
LastChunks ==
    {FileChunk(ImageHeader(KwSimple, 8, <<2>>, <<>>), CountingBytes(2), FALSE),
     [FileChunk(<<KwSimple, KwEnd>>, <<>>, TRUE) EXCEPT
         !.recs = SubSeq(@, 1, BlockRecords - 1)],
     FileChunk(<<KwSimple, KW("BITPIX", KInt(8))>>, <<>>, TRUE)}

Files ==
    {whole \o last :
        whole \in SeqsUpTo(WholeChunks, MaxHDUs),
        last \in {<<>>} \cup {<<c>> : c \in LastChunks}}

(***************************************************************************)
(* The state machine.                                                      *)
(***************************************************************************)
IdleTForm == tfstr = <<>> /\ tform = NoResult /\ tfbytes = 0
IdleKeyword == kwbytes = <<>> /\ kw = NoResult
IdleHDU ==
    /\ hdubytes = [recs |-> <<>>, data |-> <<>>]
    /\ origin = [family |-> "", mutation |-> <<"none">>]
    /\ hdu = NoResult
    /\ atloc = <<>> /\ atbase = 0 /\ pixel = NoResult /\ atcell = NoResult
IdleFits == file = <<>> /\ fitsOffset = 0 /\ hdus = <<>> /\ fits = NoResult

InitTForm ==
    /\ unit = "tform" /\ checked = TRUE
    /\ pc = "input"
    /\ tfstr \in TFormStrings
    /\ tform = NoResult
    /\ tfbytes = 0
    /\ IdleKeyword /\ IdleHDU /\ IdleFits

InitKeyword ==
    /\ unit = "keyword" /\ checked = TRUE
    /\ pc = "input"
    /\ kwbytes \in KeywordRecords
    /\ kw = NoResult
    /\ IdleTForm /\ IdleHDU /\ IdleFits

InitHDU ==
    /\ unit = "hdu"
    /\ pc = "input"
    /\ \E input \in HDUInputs :
        /\ hdubytes = input.rawbytes /\ origin = input.origin
        \* only the Image decoder multiplies on usize
        /\ checked \in IF input.origin.family = "image" THEN BOOLEAN
                       ELSE {TRUE}
    /\ hdu = NoResult
    /\ atloc = <<>> /\ atbase = 0 /\ pixel = NoResult /\ atcell = NoResult
    /\ IdleTForm /\ IdleKeyword /\ IdleFits

InitFits ==
    \* no image of the files has a size that overflows
    /\ unit = "fits" /\ checked = TRUE
    /\ pc = "reading"
    /\ file \in Files
    /\ fitsOffset = 0
    /\ hdus = <<>>
    /\ fits = NoResult
    /\ IdleTForm /\ IdleKeyword /\ IdleHDU

Init == InitTForm \/ InitKeyword \/ InitHDU \/ InitFits

\* TForm::from_string(tfstr)
FromString ==
    /\ unit = "tform" /\ pc = "input"
    /\ tform' = TFormFromString(tfstr)
    /\ pc' = "parsed"
    /\ UNCHANGED <<unit, checked, tfstr, tfbytes, keywordVars, hduVars, fitsVars>>

\* TForm::bytes() on the descriptor from_string returned
Bytes ==
    /\ unit = "tform" /\ pc = "parsed" /\ IsOk(tform)
    /\ tfbytes' = TFormBytes(tform.val)
    /\ pc' = "sized"
    /\ UNCHANGED <<unit, checked, tfstr, tform, keywordVars, hduVars, fitsVars>>

\* Keyword::new(kwbytes)
New ==
    /\ unit = "keyword" /\ pc = "input"
    /\ kw' = KeywordNew(kwbytes)
    /\ pc' = "parsed"
    /\ UNCHANGED <<unit, checked, kwbytes, tformVars, hduVars, fitsVars>>

\* HDU::from_bytes(hdubytes)
FromBytes ==
    /\ unit = "hdu" /\ pc = "input"
    /\ hdu' = HDUFromBytes(hdubytes)
    /\ pc' = "decoded"
    /\ UNCHANGED <<unit, checked, hdubytes, origin, atloc, atbase, pixel, atcell,
                   tformVars, keywordVars, fitsVars>>

\* the payload of the decoded HDU
Data == hdu.val[1].data
Holds(variant) == IsOk(hdu) /\ Data[1] = variant

\* Image::at(location) on the decoded image, the pixel buffer at any
\* address
PixelAt ==
    /\ unit = "hdu" /\ pc = "decoded" /\ Holds("Image")
    /\ \E location \in AxesLists,
          address \in 0..(BitpixSize(Data[2].pixeltype) - 1) :
        /\ atloc' = location
        /\ atbase' = address
        /\ pixel' = ImageAt(Data[2], location, address)
    /\ pc' = "accessed"
    /\ UNCHANGED <<unit, checked, hdubytes, origin, hdu, atcell, tformVars, keywordVars,
                   fitsVars>>

\* BinTable::at(row, col) on the decoded table, inside it and one past it
CellAt ==
    /\ unit = "hdu" /\ pc = "decoded" /\ Holds("BinTable")
    /\ \E row \in 0..Data[2].nrows, col \in 0..Data[2].ncols :
        /\ atloc' = <<row, col>>
        /\ atcell' = BinTableAt(Data[2], row, col)
    /\ pc' = "accessed"
    /\ UNCHANGED <<unit, checked, hdubytes, origin, hdu, atbase, pixel,
                   tformVars, keywordVars, fitsVars>>

\* FITS::from_file on the bytes of the file, one turn of its loop at a time
FromFile ==
    /\ unit = "fits" /\ pc = "reading"
    /\ \E step \in {FromFileStep(file, fitsOffset, hdus)} :
        /\ pc' = step.pc
        /\ fitsOffset' = step.offset
        /\ hdus' = step.hdus
        /\ fits' = step.fits
    /\ UNCHANGED <<unit, checked, file, tformVars, keywordVars, hduVars>>

Next ==
    FromString \/ Bytes \/ New \/ FromBytes \/ PixelAt \/ CellAt \/ FromFile

Spec == Init /\ [][Next]_vars

(***************************************************************************)
(* Claims about the TFORM grammar.                                         *)
(***************************************************************************)
\* the type table and the element sizes as the specification states them
ClaimTypeOfChar ==
    [c \in {TFormChars[i] : i \in 1..Len(TFormChars)} |->
        CASE c = "L" -> "Logical" [] c = "X" -> "Bit"
          [] c = "B" -> "UnsignedByte" [] c = "I" -> "Int16"
          [] c = "J" -> "Int32" [] c = "K" -> "Int64" [] c = "A" -> "Char"
          [] c = "E" -> "Float32" [] c = "D" -> "Float64"
          [] c = "C" -> "Complex32" [] c = "M" -> "Complex64"
          [] c = "P" -> "ArrayD32" [] c = "Q" -> "ArrayD64"]

ClaimElementSize(k) ==
    CASE k \in {"Logical", "UnsignedByte", "Char"} -> 1
      [] k = "Int16" -> 2
      [] k \in {"Int32", "Float32", "ArrayD32"} -> 4
      [] k \in {"Int64", "Float64", "Complex32", "ArrayD64"} -> 8
      [] k = "Complex64" -> 16

ClaimBytes(tf) ==
    IF tf.dtype[1] = "Bit" THEN (tf.repeats + 7) \div 8
    ELSE tf.repeats * ClaimElementSize(tf.dtype[1])

\* C4: bytes() is repeat * element size, ceil(repeat / 8) for Bit, and
\* repeat * 4 (P) or repeat * 8 (Q) for a variable-array descriptor,
\* whatever its nested type and max_len.
C4_BytesLaw ==
    (unit = "tform" /\ pc = "sized") => tfbytes = ClaimBytes(tform.val)

\* The same law on the fixed-size element types alone holds.
C4_FixedTypes ==
    (unit = "tform" /\ pc = "sized"
        /\ tform.val.dtype[1] \notin {"ArrayD32", "ArrayD64"})
    => tfbytes = ClaimBytes(tform.val)

\* C5: the leading digits are the repeat count (1 when there are none),
\* the next character selects the type, and the empty string, a string of
\* digits only and an unknown type character fail with InvalidTForm.
C5_Parse ==
    (unit = "tform" /\ pc # "input") =>
        LET numstr == TakeWhileDigit(tfstr)
            rest == Skip(tfstr, Len(numstr))
        IN  /\ (rest = <<>> \/ Head(rest) \notin DOMAIN ClaimTypeOfChar)
                => IsErr(tform, "InvalidTForm")
            /\ IsOk(tform) =>
                /\ tform.val.repeats =
                        (IF numstr = <<>> THEN 1 ELSE DigitsVal(numstr))
                /\ tform.val.dtype[1] = ClaimTypeOfChar[Head(rest)]

(***************************************************************************)
(* Claims about the keyword-record parser.                                 *)
(***************************************************************************)
\* the record has an acceptable name field and the value indicator
ClaimHasValue(r) ==
    /\ Len(r) = 80
    /\ \A i \in 1..8 : r[i] \in UpperChars \/ IsDigit(r[i]) \/ r[i] \in {" ", "-", "_"}
    /\ ~Contains(Trim(SubSeq(r, 1, 8)), " ")
    /\ r[9] = "=" /\ r[10] = " "

\* the text of a comment, empty when there is none
CommentText(c) == IF c = <<>> THEN <<>> ELSE c[1]

\* the trimmed text after the first '/' of text, empty without a '/'
ClaimCommentText(text) ==
    IF Find(text, "/") < 0 THEN <<>>
    ELSE Trim(SubSeq(text, Find(text, "/") + 2, Len(text)))

\* C10: with a value present, a record whose byte 10 is not a quote and
\* whose byte 29 is T or F is Bool(true) / Bool(false), whatever the value
\* field holds, and its comment is the trimmed text after the first '/' of
\* bytes 30..79; a record whose byte 10 is a quote is a String even when
\* byte 29 is T or F.
C10_ValueOrder ==
    (unit = "keyword" /\ pc = "parsed" /\ ClaimHasValue(kwbytes)) =>
        /\ (kwbytes[11] # "'" /\ kwbytes[30] \in {"T", "F"}) =>
            /\ IsOk(kw)
            /\ kw.val.value = KBool(kwbytes[30] = "T")
            /\ CommentText(kw.val.comment)
                    = ClaimCommentText(SubSeq(kwbytes, 31, 80))
            /\ Find(SubSeq(kwbytes, 31, 80), "/") < 0 => kw.val.comment = <<>>
        /\ kwbytes[11] = "'" => (IsOk(kw) /\ kw.val.value[1] = "String")

\* a quoted string with T in byte 29 was decoded, and so was a boolean
\* whose value field is no number
C10_Witness ==
    /\ unit = "keyword" /\ pc = "parsed" /\ ClaimHasValue(kwbytes)
    /\ kwbytes[11] = "'" /\ kwbytes[30] = "T"
    /\ IsOk(kw) /\ kw.val.value = KString(Chars("ABC"))

C10_WitnessBool ==
    /\ unit = "keyword" /\ pc = "parsed" /\ ClaimHasValue(kwbytes)
    /\ SubSeq(kwbytes, 11, 13) = Chars("ABC") /\ kwbytes[30] = "T"
    /\ IsOk(kw) /\ kw.val = Keyword("SIMPLE", KBool(TRUE), <<Chars("comment")>>)

(***************************************************************************)
(* Claims about the scanner and the dispatcher.                            *)
(***************************************************************************)
Decoded == unit = "hdu" /\ pc # "input"

\* the header blocks of the buffer and their bytes
HeaderBlocks == Len(hdubytes.recs) \div BlockRecords
HeaderBytes == HeaderBlocks * BlockBytes

\* the keywords of the buffer up to END, blank records left out
ClaimHeader ==
    LET keywords == [i \in 1..Len(hdubytes.recs) |-> hdubytes.recs[i].val]
        last == CHOOSE i \in 1..Len(keywords) :
                    /\ keywords[i].name = "END"
                    /\ \A j \in 1..(i - 1) : keywords[j].name # "END"
    IN  SelectSeq(SubSeq(keywords, 1, last), LAMBDA k : k.name # "")

ClaimInt(header, key) == value_int(header, key)[1]

RECURSIVE ClaimPixels(_, _)
ClaimPixels(header, n) ==
    IF n = 0 THEN 1
    ELSE ClaimInt(header, Name("NAXIS", n)) * ClaimPixels(header, n - 1)

\* the data size the header declares, by the kind of the HDU
ClaimDeclared(header) ==
    LET first == header[1]
        bitpix == ClaimInt(header, "BITPIX")
        naxis == ClaimInt(header, "NAXIS")
        table == ClaimInt(header, "NAXIS1") * ClaimInt(header, "NAXIS2")
    IN  IF first.name = "SIMPLE" \/ first = KW("XTENSION", Str("IMAGE"))
        THEN IF naxis <= 0 THEN 0
             ELSE ClaimPixels(header, naxis)
                  * ((IF bitpix < 0 THEN 0 - bitpix ELSE bitpix) \div 8)
        ELSE IF first = KW("XTENSION", Str("TABLE")) THEN table
        ELSE IF first = KW("XTENSION", Str("BINTABLE"))
        THEN table + ClaimInt(header, "PCOUNT")
        ELSE 0

\* C1: when HDU::from_bytes succeeds, bytes_consumed is a multiple of 2880
\* and at least the header blocks plus the data size the header declares
\* (pixels * element size, NAXIS1*NAXIS2 for an ASCII table,
\* NAXIS1*NAXIS2 + PCOUNT for a binary table).
C1_BytesConsumed ==
    (Decoded /\ IsOk(hdu)) =>
        /\ hdu.val[2] % BlockBytes = 0
        /\ hdu.val[2] >= HeaderBytes + ClaimDeclared(ClaimHeader)

\* The multiple-of-2880 half of C1 alone.
C1_Multiple == (Decoded /\ IsOk(hdu)) => hdu.val[2] % BlockBytes = 0

\* what the dispatcher returns when it hands the HDU to a decoder
Routed(header, result) ==
    IF IsOk(result)
    THEN /\ IsOk(hdu)
         /\ hdu.val[1] = [header |-> header, data |-> result.val[1]]
         /\ hdu.val[2] =
                CHOOSE n \in {k * BlockBytes : k \in 0..(HeaderBlocks + 1)} :
                    /\ n >= HeaderBytes + result.val[2]
                    /\ n - BlockBytes < HeaderBytes + result.val[2]
    ELSE hdu = result

\* C2: the dispatcher routes on Header[0] alone: SIMPLE, and XTENSION with
\* the string IMAGE, go to the Image decoder, TABLE to the ASCII-table
\* decoder, BINTABLE to the binary-table decoder; XTENSION with another
\* string or with a value that is no string fails with UnsupportedExtension;
\* any other first keyword gives an HDU without data whose bytes_consumed is
\* the size of the header.
C2_Dispatch ==
    (Decoded /\ IsOk(ScanHeader(hdubytes, 0, <<>>))) =>
        LET header == ClaimHeader
            first == header[1]
            data == hdubytes.data
        IN  /\ first.name = "SIMPLE" =>
                    Routed(header, ImageFromBytes(header, data))
            /\ first = KW("XTENSION", Str("IMAGE")) =>
                    Routed(header, ImageFromBytes(header, data))
            /\ first = KW("XTENSION", Str("TABLE")) =>
                    Routed(header, TableFromBytes(header, data))
            /\ first = KW("XTENSION", Str("BINTABLE")) =>
                    Routed(header, BinTableFromBytes(header, data))
            /\ (/\ first.name = "XTENSION"
                /\ first.value \notin {Str("IMAGE"), Str("TABLE"),
                                       Str("BINTABLE")}) =>
                    IsErr(hdu, "UnsupportedExtension")
            /\ first.name \notin {"SIMPLE", "XTENSION"} =>
                    /\ IsOk(hdu)
                    /\ hdu.val[1] = [header |-> header, data |-> HDUDataNone]
                    /\ hdu.val[2] = HeaderBytes

\* a TABLE extension decoded by the ASCII-table decoder
C2_Witness ==
    /\ Decoded /\ Holds("Table")
    /\ hdu.val[1].header[1] = KW("XTENSION", Str("TABLE"))
    /\ hdu.val[1].data[2].data # <<>>

(***************************************************************************)
(* Claims about the positional keywords.                                   *)
(***************************************************************************)
\* C3: a header made from a valid one by exchanging two of the keywords
\* the decoder expects at fixed indices, or by leaving one of them out,
\* is refused by the Image, the ASCII-table and the binary-table decoder
\* with InvalidKeywordPlacement or MissingKeyword, never decoded and never
\* refused with another error.
C3_Positional ==
    (Decoded /\ origin.mutation # <<"none">>) =>
        \/ IsErr(hdu, "InvalidKeywordPlacement")
        \/ IsErr(hdu, "MissingKeyword")

\* NAXIS1 and NAXIS2 of a binary table exchanged
C3_Witness ==
    /\ Decoded
    /\ origin = [family |-> "bintable", mutation |-> <<"swap", 3, 4>>]
    /\ At(ClaimHeader, 3).name = "NAXIS2" /\ At(ClaimHeader, 4).name = "NAXIS1"
    /\ IsErr(hdu, "InvalidKeywordPlacement")

(***************************************************************************)
(* Claims about the cells of an ASCII table.  The first value of a row is  *)
(* the cell of column 1.                                                   *)
(***************************************************************************)
TableDecoded == Decoded /\ Holds("Table") /\ Data[2].nfields >= 1

\* the format TFORM1 declares
ClaimForm(header) == tform_from_keyword(HeaderFind(header, "TFORM1")[1]).val

\* the bytes of the field of column 1 in row i (0-based): the full width of
\* the column from TBCOL1 - 1
ClaimField(header, data, i) ==
    Slice(data,
          i * ClaimInt(header, "NAXIS1") + ClaimInt(header, "TBCOL1") - 1,
          i * ClaimInt(header, "NAXIS1") + ClaimInt(header, "TBCOL1") - 1
            + ClaimForm(header)[2])

\* C6: a cell of an ASCII table is Null exactly when the raw text of its
\* field, the full width of the column from TBCOLi - 1, is byte for byte
\* the TNULLi string; a field with another text is never Null.
C6_NullExactly ==
    TableDecoded =>
        \A i \in 1..Len(Data[2].data) :
            (Data[2].data[i][1] = TValueNull) <=>
                /\ value_string(ClaimHeader, "TNULL1") # <<>>
                /\ ClaimField(ClaimHeader, hdubytes.data, i - 1)
                      = AsBytes(value_string(ClaimHeader, "TNULL1")[1])

\* the number the text of the field of column 1 in row i denotes
ClaimRaw(header, data, i) ==
    ParseF64(Trim(FromUtf8(ClaimField(header, data, i)).val)).val

\* the keyword's value, or the default when the header has none
ClaimFloat(header, key, default) ==
    IF value_float(header, key) = <<>> THEN default
    ELSE value_float(header, key)[1]

\* raw * scale + zero, scale 1 and zero 0 when the keyword is absent
ClaimPhysical(header, raw) ==
    DecAdd(DecMul(raw, ClaimFloat(header, "TSCAL1", Dec(1, 0))),
           ClaimFloat(header, "TZERO1", Dec(0, 0)))

\* C7: the value of a numeric cell of an ASCII table is raw*scale+zero
\* whenever TSCALi or TZEROi is present, scale 1 when only TZEROi is given
\* and zero 0 when only TSCALi is given, so that TSCAL=1 with TZERO=0
\* decodes as no keyword does.
C7_Scaled ==
    TableDecoded =>
        \A i \in 1..Len(Data[2].data) :
            \/ Data[2].data[i][1] = TValueNull
            \/ /\ ClaimForm(ClaimHeader)[1] = "Int"
               /\ Data[2].data[i][1] =
                    TValueInt(DecAsI64(ClaimPhysical(ClaimHeader,
                        ClaimRaw(ClaimHeader, hdubytes.data, i - 1))))
            \/ /\ ClaimForm(ClaimHeader)[1] \in {"FloatDec", "FloatE"}
               /\ Data[2].data[i][1] =
                    TValueFloat(ClaimPhysical(ClaimHeader,
                        ClaimRaw(ClaimHeader, hdubytes.data, i - 1)))
            \/ ClaimForm(ClaimHeader)[1] \in {"Char", "FloatD"}

(***************************************************************************)
(* Claims about the accessors.                                             *)
(***************************************************************************)
Accessed(variant) == unit = "hdu" /\ pc = "accessed" /\ Holds(variant)

\* C8: BinTable::at(row, col) answers InvalidRow(row, nrows) when
\* row >= nrows, else InvalidColumn(col, ncols) when col >= ncols; it never
\* panics on such an index, whatever the raw buffer holds.
C8_AtBounds ==
    Accessed("BinTable") =>
        /\ atloc[1] >= Data[2].nrows =>
                atcell = ErrWith("InvalidRow", <<atloc[1], Data[2].nrows>>)
        /\ (atloc[1] < Data[2].nrows /\ atloc[2] >= Data[2].ncols) =>
                atcell = ErrWith("InvalidColumn", <<atloc[2], Data[2].ncols>>)

\* row and column both past the table, on a table whose raw buffer is
\* shorter than its rows
C8_Witness ==
    /\ Accessed("BinTable")
    /\ atloc[1] >= Data[2].nrows /\ atloc[2] >= Data[2].ncols
    /\ Data[2].nrows > 0 /\ Data[2].ncols > 0
    /\ Len(Data[2].raw) < Data[2].rowbytes * Data[2].nrows
    /\ atcell = ErrWith("InvalidRow", <<atloc[1], Data[2].nrows>>)

\* a location inside the axes
ClaimInRange(loc, axes) ==
    /\ Len(loc) = Len(axes)
    /\ \A k \in 1..Len(axes) : loc[k] < axes[k]

\* loc[0] + loc[1]*a1 + loc[2]*a1*a2 + ...
RECURSIVE ClaimIndex(_, _, _)
ClaimIndex(loc, axes, k) ==
    IF k > Len(loc) THEN 0
    ELSE loc[k] + axes[k] * ClaimIndex(loc, axes, k + 1)

\* the bytes of element index of the payload, most significant first
ClaimElement(data, index, size) ==
    SubSeq(data, index * size + 1, (index + 1) * size)

\* C9: Image::at(loc) of an in-range location is the big-endian element of
\* the payload at the linear index loc[0] + loc[1]*a1 + ... (first axis
\* fastest): BITPIX=16, axes (2,1), payload 00 01 00 02 gives
\* pixel(0,0)=1 and pixel(1,0)=2.
C9_PixelAt ==
    (Accessed("Image") /\ ClaimInRange(atloc, Data[2].axes)) =>
        pixel = Ok(ClaimElement(hdubytes.data,
                                ClaimIndex(atloc, Data[2].axes, 1),
                                BitpixSize(Data[2].pixeltype)))

(***************************************************************************)
(* Claims about the header scanner.                                        *)
(***************************************************************************)
\* the keywords the records of the buffer hold
ClaimKeywords == [i \in 1..Len(hdubytes.recs) |-> hdubytes.recs[i].val]

\* the record (1-based) of the first keyword named END
ClaimEndRecord ==
    CHOOSE i \in 1..Len(hdubytes.recs) :
        /\ ClaimKeywords[i].name = "END"
        /\ \A j \in 1..(i - 1) : ClaimKeywords[j].name # "END"

\* C11: the scanner appends the keywords in record order, leaves out the
\* records with a blank name and stops at the first keyword named END,
\* whatever its value: the Header of a decoded HDU ends with END, holds END
\* once and holds no keyword of a record after the END record, and the
\* header bytes are 2880 times the blocks read up to the block holding END.
C11_Scan ==
    (Decoded /\ IsOk(ScanHeader(hdubytes, 0, <<>>))) =>
        /\ ScanHeader(hdubytes, 0, <<>>).val.nheaders * BlockBytes
              = BlockBytes * (((ClaimEndRecord - 1) \div BlockRecords) + 1)
        /\ ScanHeader(hdubytes, 0, <<>>).val.header = ClaimHeader
        /\ IsOk(hdu) =>
            /\ hdu.val[1].header
                  = SelectSeq(SubSeq(ClaimKeywords, 1, ClaimEndRecord),
                              LAMBDA k : k.name # "")
            /\ hdu.val[1].header[Len(hdu.val[1].header)].name = "END"
            /\ Cardinality({i \in 1..Len(hdu.val[1].header) :
                                hdu.val[1].header[i].name = "END"}) = 1
            /\ hdu.val[2] >= BlockBytes
                                * (((ClaimEndRecord - 1) \div BlockRecords) + 1)
            /\ hdu.val[1].data = HDUDataNone =>
                    hdu.val[2] = BlockBytes
                        * (((ClaimEndRecord - 1) \div BlockRecords) + 1)

\* a header of two blocks with a blank record before END, whose END has a
\* keyword after it in the same block
C11_Witness ==
    /\ Decoded /\ IsOk(hdu)
    /\ ClaimEndRecord > BlockRecords
    /\ \E i \in 1..(ClaimEndRecord - 1) : ClaimKeywords[i].name = ""
    /\ ClaimKeywords[ClaimEndRecord + 1].name = "BAR"
    /\ Len(hdu.val[1].header) = ClaimEndRecord - 1
    /\ hdu.val[2] = 2 * BlockBytes

\* the whole blocks the buffer holds
ClaimWholeBlocks == BufferLen(hdubytes) \div BlockBytes

\* every record of the whole blocks parses and none of them is END, so
\* that the scanner asks for a block the buffer does not hold
ClaimNeedsBlock ==
    /\ ClaimWholeBlocks * BlockRecords <= Len(hdubytes.recs)
    /\ \A i \in 1..(ClaimWholeBlocks * BlockRecords) :
        /\ IsOk(hdubytes.recs[i])
        /\ hdubytes.recs[i].val.name # "END"

\* C12: when the scanner needs another header block and fewer than 2880
\* bytes remain, the input exhausted without END included, HDU::from_bytes
\* returns the InvalidHeader error as a value and does not panic.
C12_ShortHeader ==
    (Decoded /\ ClaimNeedsBlock) => IsErr(hdu, "InvalidHeader")

(***************************************************************************)
(* Claims about the size of the payload.                                   *)
(***************************************************************************)
\* the family of decoder the first keyword selects
ClaimFamily(header) ==
    IF header[1].name = "SIMPLE" \/ header[1] = KW("XTENSION", Str("IMAGE"))
    THEN "image"
    ELSE IF header[1] = KW("XTENSION", Str("TABLE")) THEN "table"
    ELSE IF header[1] = KW("XTENSION", Str("BINTABLE")) THEN "bintable"
    ELSE "other"

\* the payload size the header declares: pixels * element size, NAXIS1 *
\* NAXIS2 of an ASCII table, PCOUNT + THEAP of a binary table
ClaimPayload(header) ==
    IF ClaimFamily(header) = "bintable"
    THEN ClaimInt(header, "PCOUNT")
         + (IF value_int(header, "THEAP") # <<>>
            THEN ClaimInt(header, "THEAP")
            ELSE ClaimInt(header, "NAXIS1") * ClaimInt(header, "NAXIS2"))
    ELSE ClaimDeclared(header)

\* the payload followed by enough bytes for every header of the model
ClaimPadded(data) ==
    data \o [i \in 1..(4 * MaxDim * MaxDim + 8 * MaxRows + 3) |-> ByteOf("1")]

\* the header is one its decoder accepts when the payload is long enough
ClaimHeaderGood ==
    /\ IsOk(ScanHeader(hdubytes, 0, <<>>))
    /\ ClaimFamily(ClaimHeader) # "other"
    /\ IsOk(HDUDecode(ClaimHeader, ClaimPadded(hdubytes.data)))

\* C13: when the bytes after the header are fewer than the size the header
\* declares, the decoder returns an error value, InvalidDataSize for the
\* Image and the binary table and GenericError for the ASCII table; it
\* neither succeeds nor reads past the end of the buffer.
C13_ShortData ==
    (/\ Decoded /\ ClaimHeaderGood
     /\ Len(hdubytes.data) < ClaimPayload(ClaimHeader)) =>
        IF ClaimFamily(ClaimHeader) = "table"
        THEN IsErr(hdu, "GenericError")
        ELSE IsErr(hdu, "InvalidDataSize")

(***************************************************************************)
(* Claims about the reading of a whole file.                               *)
(***************************************************************************)
\* the call of HDU::from_bytes the loop makes at its cursor
ClaimCall == HDUFromBytes(FileBuffer(file, fitsOffset))
ClaimCalls == unit = "fits" /\ pc = "reading" /\ fitsOffset < FileLen(file)

\* C14: when HDU::from_bytes fails for an HDU of the file, from_file ends
\* at once with that very error, which carries none of the HDUs decoded
\* before it, and nothing is decoded after it: the cursor, the HDUs and
\* the result stay as they are.
C14_FirstFailure ==
    [][/\ (ClaimCalls /\ ClaimCall.st = "err") =>
            /\ pc' = "done"
            /\ fits' = ClaimCall
            /\ fits'.st = "err"
            /\ hdus' = hdus /\ fitsOffset' = fitsOffset
       /\ (unit = "fits" /\ pc = "done") => UNCHANGED fitsVars]_vars

\* the second HDU of a file failed and blocks of the file lie after it
C14_Witness ==
    /\ unit = "fits" /\ pc = "done"
    /\ fits.st = "err"
    /\ Len(hdus) >= 1
    /\ fitsOffset + BlockBytes < FileLen(file)

\* the bytes of the file after the cursor: what the loop has left to read
ClaimLeft(cursor) ==
    IF cursor < FileLen(file) THEN FileLen(file) - cursor ELSE 0

\* the ways the claim lets the loop end: at the end of the buffer with the
\* HDUs, or with an error value
ClaimEnds(cursor, result) ==
    \/ result.st = "ok" /\ cursor >= FileLen(file)
    \/ result.st = "err"

\* C15: the cursor of the loop is always a multiple of 2880; a call of
\* HDU::from_bytes that succeeds moves it forward by at least 2880; every
\* turn of the loop either leaves less of the buffer to read or ends the
\* loop, so that it ends for every file, and it ends at the end of the
\* buffer or with an error.
C15_Cursor ==
    [][unit = "fits" /\ pc = "reading" =>
        /\ fitsOffset % BlockBytes = 0 /\ fitsOffset' % BlockBytes = 0
        /\ (ClaimCalls /\ IsOk(ClaimCall)) =>
                fitsOffset' >= fitsOffset + BlockBytes
        /\ \/ pc' = "reading" /\ ClaimLeft(fitsOffset') < ClaimLeft(fitsOffset)
           \/ pc' = "done" /\ ClaimEnds(fitsOffset', fits')]_vars

(***************************************************************************)
(* Claims about the Image decoder.                                         *)
(***************************************************************************)
ClaimBitpix == {8, 16, 32, 64, -32, -64}

\* the keyword at index is named name and holds an integer
ClaimIntAt(header, index, name) ==
    /\ HasIndex(header, index)
    /\ At(header, index).name = name
    /\ At(header, index).value[1] = "Int"

ClaimNaxis(header) == At(header, 2).value[2]

\* BITPIX, NAXIS and NAXIS1 .. NAXISn at the indices 1, 2 and 3 .. 2+n, with
\* values the standard allows
ClaimImagePrefix(header) ==
    /\ ClaimIntAt(header, 1, "BITPIX")
    /\ At(header, 1).value[2] \in ClaimBitpix
    /\ ClaimIntAt(header, 2, "NAXIS")
    /\ ClaimNaxis(header) >= 0
    /\ \A i \in 1..ClaimNaxis(header) :
        /\ ClaimIntAt(header, 2 + i, Name("NAXIS", i))
        /\ At(header, 2 + i).value[2] >= 0

\* a decoded IMAGE extension with that prefix and the payload it declares
ClaimImageExtension ==
    /\ Decoded /\ IsOk(ScanHeader(hdubytes, 0, <<>>))
    /\ ClaimHeader[1] = KW("XTENSION", Str("IMAGE"))
    /\ ClaimImagePrefix(ClaimHeader)
    /\ Len(hdubytes.data) >= ClaimDeclared(ClaimHeader)

\* C16: an IMAGE extension with PCOUNT right after the last axis (index
\* 3+NAXIS) and GCOUNT after it (index 4+NAXIS) is decoded, and an Image
\* made of it holds the two values; with other keywords at these two
\* indices the decoder fails with InvalidKeywordPlacement.
C16_Counts ==
    (ClaimImageExtension /\ HasIndex(ClaimHeader, 4 + ClaimNaxis(ClaimHeader)))
    =>
        IF /\ ClaimIntAt(ClaimHeader, 3 + ClaimNaxis(ClaimHeader), "PCOUNT")
           /\ ClaimIntAt(ClaimHeader, 4 + ClaimNaxis(ClaimHeader), "GCOUNT")
        THEN /\ IsOk(hdu)
             /\ Holds("Image") =>
                  /\ Data[2].pcount
                        = At(ClaimHeader, 3 + ClaimNaxis(ClaimHeader)).value[2]
                  /\ Data[2].gcount
                        = At(ClaimHeader, 4 + ClaimNaxis(ClaimHeader)).value[2]
        ELSE IsErr(hdu, "InvalidKeywordPlacement")

\* the pixel count as the claim states it: the product of the axes, 0
\* when there is no axis
ClaimPixelCount(header) ==
    IF ClaimNaxis(header) = 0 THEN 0
    ELSE ClaimPixels(header, ClaimNaxis(header))

\* a decoded primary image with a prefix the standard allows
ClaimPrimary ==
    /\ Decoded /\ IsOk(ScanHeader(hdubytes, 0, <<>>))
    /\ ClaimHeader[1].name = "SIMPLE"
    /\ ClaimImagePrefix(ClaimHeader)

\* C17: an image whose pixel count is 0, because NAXIS is 0 or an axis is
\* 0, is decoded to HDUData::None whatever BITPIX is and whatever follows
\* the header: no data byte is consumed, so that bytes_consumed is the size
\* of the header, and none is read.
C17_NoPixels ==
    (ClaimPrimary /\ ClaimPixelCount(ClaimHeader) = 0) =>
        /\ IsOk(hdu)
        /\ hdu.val[1].data = HDUDataNone
        /\ hdu.val[2] = HeaderBytes

\* a decoded primary image with an integer BITPIX at index 1
ClaimHasBitpix ==
    /\ Decoded /\ IsOk(ScanHeader(hdubytes, 0, <<>>))
    /\ ClaimHeader[1].name = "SIMPLE"
    /\ ClaimIntAt(ClaimHeader, 1, "BITPIX")

\* NAXIS is negative, or NAXIS1 .. NAXISn are in their places and one of
\* them is negative
ClaimNegative(header) ==
    /\ ClaimIntAt(header, 2, "NAXIS")
    /\ \/ ClaimNaxis(header) < 0
       \/ /\ \A i \in 1..ClaimNaxis(header) :
                ClaimIntAt(header, 2 + i, Name("NAXIS", i))
          /\ \E i \in 1..ClaimNaxis(header) : At(header, 2 + i).value[2] < 0

\* C18: the Image decoder refuses a BITPIX that is none of 8, 16, 32, 64,
\* -32 and -64 with GenericError, and refuses a negative NAXIS and a
\* negative NAXISn with an error value: it neither decodes such a header
\* nor panics on it.
C18_Values ==
    ClaimHasBitpix =>
        /\ At(ClaimHeader, 1).value[2] \notin ClaimBitpix =>
                IsErr(hdu, "GenericError")
        /\ (/\ At(ClaimHeader, 1).value[2] \in ClaimBitpix
            /\ ClaimNegative(ClaimHeader)) => hdu.st = "err"

(***************************************************************************)
(* Claims about the numbers of a keyword record.  The real field is bytes  *)
(* 10..29 of the record, the following field bytes 30..79 up to a '/'.     *)
(***************************************************************************)
\* a parsed record with a value that is neither a string nor a boolean
ClaimNumeric ==
    /\ unit = "keyword" /\ pc = "parsed" /\ ClaimHasValue(kwbytes)
    /\ kwbytes[11] # "'" /\ kwbytes[30] \notin {"T", "F"}

ClaimBeforeSlash(text) ==
    IF Find(text, "/") < 0 THEN text ELSE SubSeq(text, 1, Find(text, "/"))

ClaimReal == Trim(SubSeq(kwbytes, 11, 30))
ClaimFollowing == Trim(ClaimBeforeSlash(SubSeq(kwbytes, 31, 80)))
ClaimValueText == Trim(ClaimBeforeSlash(SubSeq(kwbytes, 11, 80)))

ClaimUnsigned(s) == IF s # <<>> /\ Head(s) \in {"+", "-"} THEN Tail(s) ELSE s

\* an integer: digits after an optional sign
ClaimIsInt(s) == ClaimUnsigned(s) # <<>> /\ AllDigits(ClaimUnsigned(s))

ClaimIntOf(s) ==
    IF Head(s) = "-" THEN 0 - DigitsVal(Tail(s)) ELSE DigitsVal(ClaimUnsigned(s))

\* a decimal number that is no integer: digits with a '.' among them, an
\* exponent E or D with an integer after it, or both
ClaimIsFloat(s) ==
    LET body == ClaimUnsigned(s)
        mark == IF Find(body, "E") >= 0 THEN Find(body, "E")
                ELSE Find(body, "D")
        mantissa == IF mark < 0 THEN body ELSE SubSeq(body, 1, mark)
        digits == SelectSeq(mantissa, LAMBDA c : c # ".")
    IN  /\ ~ClaimIsInt(s)
        /\ digits # <<>> /\ AllDigits(digits)
        /\ Len(mantissa) - Len(digits) <= 1
        /\ mark >= 0 => ClaimIsInt(SubSeq(body, mark + 2, Len(body)))

\* the parts of a text of the form (real, imag)
ClaimParts(text) ==
    IF Len(text) >= 2 /\ Head(text) = "(" /\ text[Len(text)] = ")"
    THEN LET inner == SplitComma(SubSeq(text, 2, Len(text) - 1))
         IN  [i \in 1..Len(inner) |-> Trim(inner[i])]
    ELSE <<>>

ClaimIsPair(text) ==
    /\ Len(ClaimParts(text)) = 2
    /\ \A i \in 1..2 :
        ClaimIsInt(ClaimParts(text)[i]) \/ ClaimIsFloat(ClaimParts(text)[i])

ClaimIsIntPair(text) ==
    ClaimIsPair(text) /\ \A i \in 1..2 : ClaimIsInt(ClaimParts(text)[i])

\* the pair of the record: its value, which a blank real field leaves to
\* the following field
ClaimPair == IF ClaimIsPair(ClaimValueText) THEN ClaimValueText ELSE <<>>

\* C19: a value that is neither a string nor a boolean is an Int when its
\* real field is an integer, a Float when it is a decimal number written
\* with digits, signs, '.', 'E' and 'D', ComplexInt(real, imag) when the
\* value is a pair (real, imag) of integers and ComplexFloat when it is a
\* pair with a decimal part.
C19_Classes ==
    ClaimNumeric =>
        /\ ClaimIsInt(ClaimReal) =>
                IsOk(kw) /\ kw.val.value = KInt(ClaimIntOf(ClaimReal))
        /\ ClaimIsFloat(ClaimReal) => IsOk(kw) /\ kw.val.value[1] = "Float"
        /\ ClaimIsIntPair(ClaimPair) =>
                /\ IsOk(kw)
                /\ kw.val.value
                      = KComplexInt(ClaimIntOf(ClaimParts(ClaimPair)[1]),
                                    ClaimIntOf(ClaimParts(ClaimPair)[2]))
        /\ (ClaimPair # <<>> /\ ~ClaimIsIntPair(ClaimPair)) =>
                IsOk(kw) /\ kw.val.value[1] = "ComplexFloat"

\* C20: a value that is neither a string nor a boolean and that is no
\* integer, no decimal number and holds no pair, in its whole or in its
\* following field, makes the parser fail with InvalidKeywordRecord.
C20_Invalid ==
    (/\ ClaimNumeric
     /\ ~ClaimIsInt(ClaimReal) /\ ~ClaimIsFloat(ClaimReal)
     /\ ~ClaimIsPair(ClaimValueText) /\ ~ClaimIsPair(ClaimFollowing))
    => IsErr(kw, "InvalidKeywordRecord")

(***************************************************************************)
(* Claims about the Fortran exponent marker D.                             *)
(***************************************************************************)
\* the text with every D written as E
ClaimExponentE(text) == [i \in 1..Len(text) |-> IF text[i] = "D" THEN "E" ELSE text[i]]

\* the record with the exponent of its real field (bytes 10..29) written E
ClaimRecordE ==
    SubSeq(kwbytes, 1, 10) \o ClaimExponentE(SubSeq(kwbytes, 11, 30))
        \o SubSeq(kwbytes, 31, 80)

\* a keyword record whose real field is a decimal number m D e
ClaimRecordD ==
    ClaimNumeric /\ ClaimIsFloat(ClaimReal) /\ Contains(ClaimReal, "D")

\* the text of the field of column 1 in the only row of the table
ClaimFieldText == FromUtf8(ClaimField(ClaimHeader, hdubytes.data, 0)).val

\* the payload with the exponent of that field written E
ClaimPayloadE ==
    [i \in 1..Len(hdubytes.data) |->
        IF /\ i >= ClaimInt(ClaimHeader, "TBCOL1")
           /\ i < ClaimInt(ClaimHeader, "TBCOL1") + ClaimForm(ClaimHeader)[2]
           /\ hdubytes.data[i] = ByteOf("D")
        THEN ByteOf("E") ELSE hdubytes.data[i]]

\* an ASCII table of one row whose column 1 has a float format (F, E or D)
\* and whose field of column 1 is a decimal number m D e, and which decodes
\* when the exponent is written E
ClaimFieldD ==
    /\ Decoded /\ origin.family = "table" /\ origin.mutation = <<"none">>
    /\ ClaimInt(ClaimHeader, "NAXIS2") = 1
    /\ IsOk(tform_from_keyword(HeaderFind(ClaimHeader, "TFORM1")[1]))
    /\ ClaimForm(ClaimHeader)[1] \in {"FloatDec", "FloatE", "FloatD"}
    /\ ClaimIsFloat(Trim(ClaimFieldText)) /\ Contains(ClaimFieldText, "D")
    /\ IsOk(TableFromBytes(ClaimHeader, ClaimPayloadE))

\* C21: a keyword record with real field m D e decodes to the same keyword
\* as the record with m E e, and a numeric field of an ASCII table with a D
\* exponent decodes to the same table as with an E exponent.
C21_DExponent ==
    /\ ClaimRecordD => kw = KeywordNew(ClaimRecordE)
    /\ ClaimFieldD =>
        /\ IsOk(hdu)
        /\ Data = TableFromBytes(ClaimHeader, ClaimPayloadE).val[1]

\* the same for the columns of format D alone
C21_FormatD ==
    (ClaimFieldD /\ ClaimForm(ClaimHeader)[1] = "FloatD") =>
        /\ IsOk(hdu)
        /\ Data = TableFromBytes(ClaimHeader, ClaimPayloadE).val[1]

(***************************************************************************)
(* Claims about the quoted strings of a keyword record.                    *)
(***************************************************************************)
\* the value field of the record, bytes 10..79
ClaimValueField == SubSeq(kwbytes, 11, 80)

\* the quotes that end at position p of text in a row, the opening quote
\* at position 1 not counted
RECURSIVE ClaimQuoteRun(_, _)
ClaimQuoteRun(text, p) ==
    IF p < 2 \/ text[p] # "'" THEN 0 ELSE 1 + ClaimQuoteRun(text, p - 1)

\* a quote that is not part of a doubled pair: the last of an odd run
ClaimCloses(text, p) ==
    /\ text[p] = "'"
    /\ p = Len(text) \/ text[p + 1] # "'"
    /\ ClaimQuoteRun(text, p) % 2 = 1

\* the positions of the closing quotes of text
ClaimClosing(text) == {p \in 2..Len(text) : ClaimCloses(text, p)}

\* the first of them
ClaimClose(text) ==
    CHOOSE p \in ClaimClosing(text) : \A q \in ClaimClosing(text) : p <= q

\* a record with a value whose byte 10 is a quote, the string closed
ClaimQuoted ==
    /\ unit = "keyword" /\ pc = "parsed" /\ ClaimHasValue(kwbytes)
    /\ kwbytes[11] = "'" /\ ClaimClosing(ClaimValueField) # {}

\* C22: a record with a value whose byte 10 is a quote is a String of the
\* trimmed text between the opening quote and the first later quote that
\* is not part of a doubled pair, and its comment is the trimmed text after
\* the first '/' after that closing quote.
C22_Quoted ==
    ClaimQuoted =>
        /\ IsOk(kw)
        /\ kw.val.value
              = KString(Trim(SubSeq(ClaimValueField, 2,
                                    ClaimClose(ClaimValueField) - 1)))
        /\ CommentText(kw.val.comment)
              = ClaimCommentText(SubSeq(ClaimValueField,
                                        ClaimClose(ClaimValueField) + 1,
                                        Len(ClaimValueField)))

\* a decoded string with a doubled quote and a '/' in it, and a comment
C22_Witness ==
    /\ ClaimQuoted /\ IsOk(kw)
    /\ Contains(SubSeq(ClaimValueField, 2, ClaimClose(ClaimValueField) - 1), "/")
    /\ Contains(SubSeq(ClaimValueField, 2, ClaimClose(ClaimValueField) - 1), "'")
    /\ kw.val.comment # <<>> /\ kw.val.comment[1] # <<>>

(***************************************************************************)
(* Claims about the name of a keyword record.                              *)
(***************************************************************************)
\* a byte of a keyword name: an uppercase letter, a digit, '-' or '_'
ClaimNameChar(c) == c \in UpperChars \/ IsDigit(c) \/ c \in {"-", "_"}

\* the name field of the record (bytes 0..7) has a byte that is neither a
\* name byte nor a space, or a space between two name bytes
ClaimBadName(r) ==
    \/ \E i \in 1..8 : ~ClaimNameChar(r[i]) /\ r[i] # " "
    \/ \E i, j, k \in 1..8 :
            i < j /\ j < k /\ r[i] # " " /\ r[j] = " " /\ r[k] # " "

ClaimParsed == unit = "keyword" /\ pc = "parsed"

\* C23: the parser fails with BadKeywordLength when the input is not 80
\* bytes long and with InvalidCharacterInKeyword when a byte of the name
\* field is no uppercase letter, digit, space, '-' or '_' or when the
\* trimmed name has an interior space; the name of every keyword it
\* returns is made of uppercase letters, digits, '-' and '_' alone.
C23_Name ==
    ClaimParsed =>
        /\ Len(kwbytes) # 80 => IsErr(kw, "BadKeywordLength")
        /\ (Len(kwbytes) = 80 /\ ClaimBadName(kwbytes))
                => IsErr(kw, "InvalidCharacterInKeyword")
        /\ IsOk(kw) =>
                \A i \in 1..Len(Chars(kw.val.name)) :
                    ClaimNameChar(Chars(kw.val.name)[i])

\* the same for the records whose name field is text
C23_TextName ==
    (ClaimParsed /\ IsOk(TextFromUtf8(SubSeq(kwbytes, 1, 8)))) => C23_Name

(***************************************************************************)
(* Claims about the variable-array forms P and Q.                          *)
(***************************************************************************)
\* the repeat count, the form after it and the text after the element type
ClaimCount == TakeWhileDigit(tfstr)
ClaimArrayForm == Skip(tfstr, Len(ClaimCount))
ClaimMaxLen == Skip(ClaimArrayForm, 2)

\* the text is (digits)
ClaimParenthesised(text) ==
    /\ Len(text) >= 3 /\ Head(text) = "(" /\ text[Len(text)] = ")"
    /\ AllDigits(SubSeq(text, 2, Len(text) - 1))

\* a P or Q form: a repeat count or none, P or Q, the character of an
\* element type, and a parenthesised integer or nothing
ClaimIsArray ==
    /\ unit = "tform" /\ pc # "input"
    /\ Len(ClaimCount) <= MaxDigits
    /\ Len(ClaimArrayForm) >= 2
    /\ ClaimArrayForm[1] \in {"P", "Q"}
    /\ ClaimArrayForm[2] \in DOMAIN ClaimTypeOfChar \ {"P", "Q"}
    /\ ClaimMaxLen = <<>> \/ ClaimParenthesised(ClaimMaxLen)

ClaimRepeat == IF ClaimCount = <<>> THEN 1 ELSE DigitsVal(ClaimCount)

\* C24: a P or Q form stores the type its inner character names as the
\* nested element type and a parenthesised integer as max_len, and fails
\* with InvalidTForm when its repeat count is neither 0 nor 1.
C24_Array ==
    ClaimIsArray =>
        IF ClaimRepeat \in {0, 1}
        THEN /\ IsOk(tform)
             /\ tform.val.dtype[1] = ClaimTypeOfChar[ClaimArrayForm[1]]
             /\ tform.val.dtype[2] = <<ClaimTypeOfChar[ClaimArrayForm[2]]>>
             /\ ClaimMaxLen # <<>> =>
                    tform.val.dtype[3]
                        = DigitsVal(SubSeq(ClaimMaxLen, 2, Len(ClaimMaxLen) - 1))
        ELSE IsErr(tform, "InvalidTForm")

\* the part of it that holds: the form is ArrayD32 for P and ArrayD64 for Q
C24_Kind ==
    (ClaimIsArray /\ ClaimRepeat \in {0, 1}) =>
        IsOk(tform) /\ tform.val.dtype[1] = ClaimTypeOfChar[ClaimArrayForm[1]]

(***************************************************************************)
(* Claims about the rows of an ASCII table.                                *)
(***************************************************************************)
\* the format TFORMj declares (j from 1)
ClaimFormOf(header, j) ==
    tform_from_keyword(HeaderFind(header, Name("TFORM", j))[1]).val

\* the text of the field of column j in row i (i from 0)
ClaimFieldOf(header, data, i, j) ==
    FromUtf8(Slice(data,
                   i * ClaimInt(header, "NAXIS1")
                     + ClaimInt(header, Name("TBCOL", j)) - 1,
                   i * ClaimInt(header, "NAXIS1")
                     + ClaimInt(header, Name("TBCOL", j)) - 1
                     + ClaimFormOf(header, j)[2])).val

\* the row has one cell for every column, and the cell of a column of
\* format A is the String of its field
ClaimRowCells(header, data, row, i) ==
    /\ Len(row) = ClaimInt(header, "TFIELDS")
    /\ \A j \in 1..ClaimInt(header, "TFIELDS") :
        ClaimFormOf(header, j)[1] = "Char" =>
            row[j] = TValueString(ClaimFieldOf(header, data, i, j))

\* C25: every row of a decoded ASCII table has TFIELDS cells, cell j the
\* value of column j, whatever the kind of the cells.
C25_Cells ==
    TableDecoded =>
        \A i \in 1..Len(Data[2].data) :
            ClaimRowCells(ClaimHeader, hdubytes.data, Data[2].data[i], i - 1)

\* a column of format I whose cell is not Null
ClaimIntCell(header, row) ==
    \E j \in 1..ClaimInt(header, "TFIELDS") :
        /\ ClaimFormOf(header, j)[1] = "Int"
        /\ \E k \in 1..Len(row) : row[k][1] = "Int"

\* the same for the rows without an Int cell
C25_NoIntCell ==
    TableDecoded =>
        \A i \in 1..Len(Data[2].data) :
            ~ClaimIntCell(ClaimHeader, Data[2].data[i]) =>
                ClaimRowCells(ClaimHeader, hdubytes.data, Data[2].data[i],
                              i - 1)

(***************************************************************************)
(* Claims about the binary-table decoder.                                  *)
(***************************************************************************)
BinTableDecoded == Decoded /\ Holds("BinTable")

\* THEAP: the keyword when there is one, NAXIS1 * NAXIS2 otherwise
ClaimTheap(header) ==
    IF value_int(header, "THEAP") # <<>> THEN ClaimInt(header, "THEAP")
    ELSE ClaimInt(header, "NAXIS1") * ClaimInt(header, "NAXIS2")

\* the bytes the decoder takes
ClaimTaken(header) == ClaimInt(header, "PCOUNT") + ClaimTheap(header)

\* the least multiple of the block size that is no less than n
ClaimBlocksFor(n) == ((n + BlockBytes - 1) \div BlockBytes) * BlockBytes

\* C26: a decoded binary table has consumed PCOUNT + THEAP bytes, which the
\* dispatcher adds to the header blocks and rounds up to a block, and its
\* raw is that many leading bytes of the payload; THEAP is the keyword when
\* present and NAXIS1 * NAXIS2 otherwise.
C26_Consumed ==
    BinTableDecoded =>
        /\ BinTableFromBytes(ClaimHeader, hdubytes.data).val[2]
              = ClaimTaken(ClaimHeader)
        /\ hdu.val[2] = ClaimBlocksFor(HeaderBytes + ClaimTaken(ClaimHeader))
        /\ Data[2].raw = SubSeq(hdubytes.data, 1, ClaimTaken(ClaimHeader))
        /\ Len(Data[2].raw) = ClaimTaken(ClaimHeader)
        /\ value_int(ClaimHeader, "THEAP") = <<>> =>
                Len(Data[2].raw)
                    = ClaimInt(ClaimHeader, "NAXIS1")
                        * ClaimInt(ClaimHeader, "NAXIS2")
                      + ClaimInt(ClaimHeader, "PCOUNT")

\* a decoded table with a heap and a THEAP that is not NAXIS1 * NAXIS2
C26_Witness ==
    /\ BinTableDecoded
    /\ value_int(ClaimHeader, "THEAP") # <<>>
    /\ ClaimInt(ClaimHeader, "THEAP")
          # ClaimInt(ClaimHeader, "NAXIS1") * ClaimInt(ClaimHeader, "NAXIS2")
    /\ ClaimInt(ClaimHeader, "PCOUNT") > 0
    /\ Len(Data[2].raw) = ClaimTaken(ClaimHeader)
    /\ Len(Data[2].raw) > 0

(***************************************************************************)
(* Claims about the cells of a binary table.                               *)
(***************************************************************************)
\* BinTable::at was called inside the table and returned
ClaimCellRead ==
    /\ Accessed("BinTable")
    /\ atloc[1] < Data[2].nrows /\ atloc[2] < Data[2].ncols
    /\ IsOk(atcell)

\* the descriptor of the column read, its kind and the size of an element
ClaimColumn == Data[2].tform[atloc[2] + 1]
ClaimKind == ClaimColumn.dtype[1]
ClaimSize == ClaimElementSize(ClaimKind)

\* bytes() of the descriptors of the columns before col, added up
RECURSIVE ClaimBefore(_, _)
ClaimBefore(forms, col) ==
    IF col = 0 THEN 0
    ELSE TFormBytes(forms[1]) + ClaimBefore(Tail(forms), col - 1)

\* the byte the cell starts at
ClaimStart ==
    atloc[1] * Data[2].rowbytes + ClaimBefore(Data[2].tform, atloc[2])

\* a byte as a signed one
ClaimSigned(b) == IF b >= 128 THEN b - 256 ELSE b

\* the number of n bytes (n at most 4) that is stored at the byte from,
\* first byte most significant, in two's complement
ClaimBigEndian(raw, from, n) ==
    CASE n = 1 -> ClaimSigned(raw[from + 1])
      [] n = 2 -> ClaimSigned(raw[from + 1]) * 256 + raw[from + 2]
      [] n = 4 -> ClaimSigned(raw[from + 1]) * 256 * 256 * 256
                    + raw[from + 2] * 256 * 256
                    + raw[from + 3] * 256 + raw[from + 4]

\* element i of the cell, by the kind of the column
ClaimElementOf(raw, i) ==
    LET from == ClaimStart + i * ClaimSize
    IN  CASE ClaimKind = "Logical" -> raw[from + 1] # 0
          [] ClaimKind = "UnsignedByte" -> raw[from + 1]
          [] ClaimKind = "Char" -> CharOf(raw[from + 1])
          [] ClaimKind \in {"Int16", "Int32", "Float32"} ->
                ClaimBigEndian(raw, from, ClaimSize)
          [] ClaimKind = "Complex32" ->
                <<ClaimBigEndian(raw, from, 4),
                  ClaimBigEndian(raw, from + 4, 4)>>

ClaimArrayName ==
    IF ClaimKind = "Char" THEN "String" ELSE ClaimKind \o "Arr"

\* C27: BinTable::at(row, col) reads the cell that starts at
\* row * row_byte_width plus the bytes() of the columns before col, element
\* i of it at that start plus i * element size, first byte most
\* significant, a complex element as the pair (real, imag); the start of a
\* column is the same in every row.
C27_Cell ==
    (ClaimCellRead
        /\ ClaimKind \in {"Logical", "UnsignedByte", "Char", "Int16", "Int32",
                          "Float32", "Complex32"}) =>
        /\ ClaimStart + ClaimColumn.repeats * ClaimSize <= Len(Data[2].raw)
        /\ IF ClaimColumn.repeats = 1
           THEN atcell.val = <<ClaimKind, ClaimElementOf(Data[2].raw, 0)>>
           ELSE atcell.val
                   = <<ClaimArrayName,
                       [i \in 1..ClaimColumn.repeats |->
                           ClaimElementOf(Data[2].raw, i - 1)]>>

\* an array of two elements read in the second row of the second column,
\* with a negative element
C27_Witness ==
    /\ ClaimCellRead /\ atloc[1] = 1 /\ atloc[2] = 1
    /\ ClaimKind = "Int16" /\ ClaimColumn.repeats = 2
    /\ \E i \in 1..2 : atcell.val[2][i] < 0

\* the same for a complex column
C27_Complex ==
    /\ ClaimCellRead /\ atloc[1] = 1 /\ atloc[2] = 1
    /\ ClaimKind = "Complex32" /\ ClaimColumn.repeats = 2

\* bit k of the cell: bit k mod 8 of the byte k div 8, the least
\* significant bit of a byte being its bit 0
ClaimBit(raw, k) ==
    (raw[ClaimStart + (k \div 8) + 1] \div (2 ^ (k % 8))) % 2 = 1

\* a Bit cell was read
ClaimBitRead == ClaimCellRead /\ ClaimKind = "Bit"

\* the booleans of the first n bits of the cell
ClaimBits(n) == [k \in 1..n |-> ClaimBit(Data[2].raw, k - 1)]

\* C28: a Bit column of repeat r > 1 gives r booleans, one for each bit it
\* declares, read from ceil(r / 8) bytes, bit k being bit k mod 8 of byte
\* k div 8 counted from the least significant; one of repeat 1 gives true
\* exactly when its one byte is not zero.
C28_Bits ==
    ClaimBitRead =>
        IF ClaimColumn.repeats = 1
        THEN atcell.val = <<"Bit", Data[2].raw[ClaimStart + 1] # 0>>
        ELSE /\ ClaimStart + (ClaimColumn.repeats + 7) \div 8
                    <= Len(Data[2].raw)
             /\ atcell.val = <<"BitArr", ClaimBits(ClaimColumn.repeats)>>

\* what holds of it: the booleans of the whole bytes read, of which there
\* are r when r is a multiple of 8
C28_WholeBytes ==
    ClaimBitRead =>
        IF ClaimColumn.repeats = 1
        THEN atcell.val = <<"Bit", Data[2].raw[ClaimStart + 1] # 0>>
        ELSE /\ ClaimStart + (ClaimColumn.repeats + 7) \div 8
                    <= Len(Data[2].raw)
             /\ atcell.val
                  = <<"BitArr",
                      ClaimBits(8 * ((ClaimColumn.repeats + 7) \div 8))>>

\* BinTable::at was called inside the table
ClaimCellAsked ==
    /\ Accessed("BinTable")
    /\ atloc[1] < Data[2].nrows /\ atloc[2] < Data[2].ncols

\* C29: BinTable::at of a row and a column of a decoded table returns a
\* value or an error value and never reads past the end of raw, also when
\* the columns are wider than NAXIS1 and when THEAP is less than
\* NAXIS1 * NAXIS2.
C29_InsideRaw == ClaimCellAsked => atcell.st # "panic"

\* the same for the tables whose raw holds all the rows and whose columns
\* fit in a row
C29_WholeRows ==
    (/\ ClaimCellAsked
     /\ Len(Data[2].raw) >= Data[2].nrows * Data[2].rowbytes
     /\ ClaimBefore(Data[2].tform, Data[2].ncols) <= Data[2].rowbytes)
    => atcell.st # "panic"

(***************************************************************************)
(* Claims about the column metadata of a binary table.                     *)
(***************************************************************************)
\* the vectors with one entry for each column, and the keyword and the type
\* of value each is read from
ClaimVectors ==
    {<<"fieldname", "TTYPE", "String">>, <<"units", "TUNIT", "String">>,
     <<"scale", "TSCAL", "Float">>, <<"zero", "TZERO", "Float">>,
     <<"tdmin", "TDMIN", "Float">>, <<"tdmax", "TDMAX", "Float">>,
     <<"tlmin", "TLMIN", "Float">>, <<"tlmax", "TLMAX", "Float">>,
     <<"tnull", "TNULL", "Int">>}

\* the vector has ncols entries, entry i what the header says of column i
ClaimDescribes(table, header, vector) ==
    /\ Len(table[vector[1]]) = table.ncols
    /\ \A i \in 1..table.ncols :
        table[vector[1]][i]
            = HeaderValueOfType(header, Name(vector[2], i), vector[3])

\* the descriptors of the columns are those of TFORM1 .. TFORMn
ClaimForms(table, header) ==
    /\ Len(table.tform) = table.ncols
    /\ \A i \in 1..table.ncols :
        Ok(table.tform[i])
            = TFormFromString(value_string(header, Name("TFORM", i))[1])

\* C30: every per-column vector of a decoded binary table (fieldname,
\* scale, zero, tdisp, units, tdmin, tdmax, tlmin, tlmax, tnull, tform) has
\* ncols entries, entry i describing column i.
C30_Vectors ==
    BinTableDecoded =>
        /\ \A vector \in ClaimVectors :
                ClaimDescribes(Data[2], ClaimHeader, vector)
        /\ ClaimForms(Data[2], ClaimHeader)
        /\ Len(Data[2].tdisp) = Data[2].ncols

\* the same without tdisp
C30_ButTDisp ==
    BinTableDecoded =>
        /\ \A vector \in ClaimVectors :
                ClaimDescribes(Data[2], ClaimHeader, vector)
        /\ ClaimForms(Data[2], ClaimHeader)
====
